---- MODULE Spec2Model ----
(***************************************************************************)
(* Verification model of the ecosnack-cron news pipeline.                  *)
(*                                                                         *)
(*   SpecRetry   one invocation of withRetry (utils)                       *)
(*   SpecNews    one run of analyzeNews (news analyzer, stages 0 to 3)     *)
(*   SpecTitle   Stage 1 of analyzeNews, filterByTitles                    *)
(*   SpecQuality Stage 2 of analyzeNews, filterByQuality                   *)
(*   SpecAnalyze Stage 3 of analyzeNews, analyzeArticlesInParallel         *)
(*   SpecPipeline analyzeNews from call to return, fewer answers per call  *)
(*   SpecEnrich  analyzeNews from Stage 2 to its return                    *)
(*   SpecReport  one run of generateDailyReport with validateEvidence      *)
(*   SpecRecency calculateRecencyScore applied to two publication dates    *)
(*   SpecDigest  successive saveDailyReport calls on one storage           *)
(*   SpecDb      concurrent saveNewsArticles calls on one storage          *)
(*   SpecHandles the OpenAI clients and the PrismaClient of one process    *)
(*   SpecJob     main of the news job and of the daily-report job          *)
(*   SpecRegenerate generateDailyReport for a date that has a digest       *)
(*   SpecValidate validateEvidence called on digests of any shape          *)
(*   SpecTransform transformAIResponseToReportData, the related articles   *)
(*   SpecExamples buildAnalysisPrompt with the exemplar store              *)
(*   SpecFetch   fetchAllNews over its sources                             *)
(*                                                                         *)
(* Every specification shares the variables below; the variables of the    *)
(* other components stay at their idle values.                             *)
(***************************************************************************)
EXTENDS Integers, Sequences, FiniteSets, TLC

VARIABLES
    r_pc,        \* withRetry: "call" | "sleep" | "returned" | "thrown"
    r_opts,      \* withRetry: the options argument
    r_attempt,   \* withRetry: loop variable `attempt`
    r_lastError, \* withRetry: `lastError` (its message)
    r_calls,     \* number of times fn() was invoked
    r_errors,    \* messages of the errors fn() threw, in order
    r_waits,     \* the setTimeout delays awaited, in order
    n_pc,            \* analyzeNews: the await it is suspended at
    n_articles,      \* analyzeNews: the `articles` argument
    n_existing,      \* links already stored (the ids of the stored articles)
    n_lookup,        \* getExistingLinks: "pending" | "answered" | "threw"
    n_unique,        \* uniqueArticles
    n_i,             \* loop index `i` of the running batch loop
    n_allScored,     \* filterByTitles: allScored
    n_titleFiltered, \* titleFiltered
    n_inflight,      \* positions whose fetch / analysis promise is pending
    n_settled,       \* results of the settled promises of the running fan-out
    n_outcomes,      \* how the page fetch of each position of titleFiltered ended
    n_withImages,    \* extractImagesForArticles: results
    n_sortedWithImage, \* filterByQuality: sortedWithImage
    n_sortedNoImage, \* filterByQuality: sortedNoImage
    n_qualityFiltered, \* qualityFiltered
    n_responses,     \* Stage 3: what each item's analysis call came back with
    n_analysis,      \* Stage 3: the value of each analyzeArticleWithAI promise
    n_success,       \* AnalysisResult.success
    n_output,        \* AnalysisResult.articles
    n_llmCalls,      \* text-generation calls issued so far
    n_fetches,       \* page fetches issued so far
    n_llmFor,        \* ids of the articles put in a text-generation call
    n_fetchFor,      \* ids of the articles whose page was fetched
    n_titleCalls,    \* filterByTitles: the scoreTitleBatch calls issued, in order
    n_error,         \* AnalysisResult.error
    d_pc,            \* generateDailyReport: the await it is suspended at
    d_opts,          \* generateDailyReport: the options argument
    d_articles,      \* the ids getDailyArticles returned, most important first
    d_supplied,      \* the ids analyzeForDailyReport put in the prompt
    d_keyInsights,   \* reportData.keyInsights: the evidence lists
    d_val,           \* validateEvidence: loop position, results and counters
    d_reportData,    \* reportData: the evaluation fields
    d_store,         \* the stored daily report of the date
    d_stored,        \* a daily report of the date is stored
    d_result,        \* GenerateDailyReportResult.success
    c_pc,            \* calculateRecencyScore: "apply" | "done"
    c_pubDates,      \* the two publication dates it is applied to
    c_scores,        \* the values it returned for them
    p_reports,       \* the stored rows of dailyReport
    p_nextId,        \* the next autoincrement id of dailyReport
    p_runs,          \* saveDailyReport calls completed so far
    p_returned,      \* what the saveDailyReport calls returned, in order
    a_articles,      \* the stored rows of article
    a_nextId,        \* the next autoincrement id of article
    b_articles,      \* saveNewsArticles: the `articles` argument of each run
    b_idx,           \* saveNewsArticles: position of the loop of each run
    b_pc,            \* saveNewsArticle: the await each run is suspended at
    b_results,       \* what each saveNewsArticle call of each run came to
    b_savedCount,    \* saveNewsArticles: savedCount of each run
    h_job,           \* the job the process runs: "news" | "report"
    h_client,        \* each module's client variable: the instance it holds, 0 for null
    h_clients,       \* OpenAI clients constructed so far in the process
    h_prisma,        \* database module: the PrismaClient `prisma` holds, 0 for null
    h_handles,       \* PrismaClient instances constructed so far in the process
    h_obtained,      \* the instances each component was handed, in order
    j_kind,          \* the job entry point: "news" | "report"
    j_pc,            \* main: the await it is suspended at, or "exited"
    j_timeout,       \* the global timer: "none" | "armed" | "cleared" | "fired"
    j_db,            \* the storage connection: "none" | "open" | "closed"
    j_saved,         \* the id lists main passed to saveNewsArticles, one per call
    j_exit,          \* the exit status of the process
    t_pc,            \* transformAIResponseToReportData: "start" | "done"
    t_articles,      \* the day's articles, as NewsRecord
    t_aiResponse,    \* the article ids the synthesis response refers to
    t_reportData,    \* the related articles of the report data built
    x_pc,            \* buildAnalysisPrompt: "start" | "select" | "built" | "called"
    x_article,       \* the article a prompt is built for
    x_store,         \* the rows of the exemplar store that match the queries
    x_dbExamples,    \* what getExamplesForPrompt returned
    x_examples,      \* the worked examples selected for the prompt
    f_pc,            \* fetchAllNews: "fetching" | "done"
    f_attempts,      \* per source, the fetch attempts withRetry has made
    f_settled,       \* per source, how fetchFromSource settled
    f_result         \* the FetchResult returned

retryVars == <<r_pc, r_opts, r_attempt, r_lastError, r_calls, r_errors, r_waits>>

newsVars == <<n_pc, n_articles, n_existing, n_lookup, n_unique, n_i, n_allScored,
              n_titleFiltered, n_inflight, n_settled, n_outcomes, n_withImages,
              n_sortedWithImage, n_sortedNoImage, n_qualityFiltered,
              n_responses, n_analysis,
              n_success, n_output, n_llmCalls, n_fetches,
              n_llmFor, n_fetchFor, n_titleCalls, n_error>>

reportVars == <<d_pc, d_opts, d_articles, d_supplied, d_keyInsights, d_val,
                d_reportData, d_store, d_stored, d_result>>

recencyVars == <<c_pc, c_pubDates, c_scores>>

digestVars == <<p_reports, p_nextId, p_runs, p_returned>>

dbVars == <<a_articles, a_nextId, b_articles, b_idx, b_pc, b_results, b_savedCount>>

handleVars == <<h_job, h_client, h_clients, h_prisma, h_handles, h_obtained>>

jobVars == <<j_kind, j_pc, j_timeout, j_db, j_saved, j_exit>>

transformVars == <<t_pc, t_articles, t_aiResponse, t_reportData>>

exampleVars == <<x_pc, x_article, x_store, x_dbExamples, x_examples>>

fetchVars == <<f_pc, f_attempts, f_settled, f_result>>

vars == <<retryVars, newsVars, reportVars, recencyVars, digestVars, dbVars,
          handleVars, jobVars,
          transformVars, exampleVars, fetchVars>>

\* The variables of the components other than the one an action belongs to.
exceptRetry == <<newsVars, reportVars, recencyVars, digestVars, dbVars,
                 handleVars, jobVars,
                 transformVars, exampleVars, fetchVars>>
exceptNews == <<retryVars, reportVars, recencyVars, digestVars, dbVars,
                 handleVars, jobVars,
                 transformVars, exampleVars, fetchVars>>
exceptReport == <<retryVars, newsVars, recencyVars, digestVars, dbVars,
                 handleVars, jobVars,
                 transformVars, exampleVars, fetchVars>>
exceptRecency == <<retryVars, newsVars, reportVars, digestVars, dbVars,
                 handleVars, jobVars,
                 transformVars, exampleVars, fetchVars>>
exceptDigest == <<retryVars, newsVars, reportVars, recencyVars, dbVars,
                 handleVars, jobVars,
                 transformVars, exampleVars, fetchVars>>
exceptDb == <<retryVars, newsVars, reportVars, recencyVars, digestVars,
                 handleVars, jobVars,
                 transformVars, exampleVars, fetchVars>>
exceptHandles == <<retryVars, newsVars, reportVars, recencyVars, digestVars, dbVars,
                   jobVars,
                 transformVars, exampleVars, fetchVars>>
exceptJob == <<retryVars, reportVars, recencyVars, digestVars, dbVars, handleVars,
                 transformVars, exampleVars, fetchVars>>
exceptTransform == <<retryVars, newsVars, reportVars, recencyVars, digestVars, dbVars,
                     handleVars, jobVars, exampleVars, fetchVars>>
exceptExamples == <<retryVars, newsVars, reportVars, recencyVars, digestVars, dbVars,
                    handleVars, jobVars, transformVars, fetchVars>>
exceptFetch == <<retryVars, newsVars, reportVars, recencyVars, digestVars, dbVars,
                 handleVars, jobVars, transformVars, exampleVars>>

----------------------------------------------------------------------------
(* Generic helpers *)

Min(a, b) == IF a <= b THEN a ELSE b

RECURSIVE Pow2(_)
Pow2(n) == IF n <= 0 THEN 1 ELSE 2 * Pow2(n - 1)

\* An option or field that is not set (JavaScript undefined / null).
Undefined == -1

\* The error field of a result that carries none; an error message is a
\* non-empty sequence of tokens.
NoError == <<>>

----------------------------------------------------------------------------
(* utils: withRetry *)

\* Largest `retries` option explored.
MaxRetries == 3

\* Defaults of the destructured options.
DefaultRetries == 3
DefaultDelay == 1000
DefaultMaxDelay == 5000

\* Error messages are sequences of tokens; String.includes is token
\* membership and String.startsWith is a test of the first token.
includes(message, part) == \E i \in 1..Len(message) : message[i] = part

startsWith(message, part) == Len(message) > 0 /\ message[1] = part

ErrorMessages ==
    { <<"429", "exceeded your current quota">>,
      <<"429", "insufficient_quota">>,
      <<"401", "Incorrect API key">>,
      <<"400", "Invalid request">>,
      <<"401", "Unauthorized">>,
      <<"Request failed", "400">>,
      <<"429", "Rate limit reached">>,
      <<"timeout">> }

\* The initial value of lastError: new Error("Retry failed").
RetryFailed == <<"Retry failed">>

isNonRetryableError_NoBadRequest(message) ==
    \/ includes(message, "exceeded your current quota")
    \/ includes(message, "insufficient_quota")
    \/ (includes(message, "401") /\ includes(message, "Incorrect API key"))

isNonRetryableError(message) ==
    \/ includes(message, "exceeded your current quota")
    \/ includes(message, "insufficient_quota")
    \/ (includes(message, "401") /\ includes(message, "Incorrect API key"))
    \/ startsWith(message, "400")

\* The shouldRetry callbacks explored: absent, one that refuses every error,
\* one that accepts only timeouts.
ShouldRetryOptions == {"absent", "never", "onlyTimeout"}

shouldRetry(opt, message) ==
    CASE opt = "never" -> FALSE
      [] opt = "onlyTimeout" -> includes(message, "timeout")
      [] OTHER -> TRUE

RetryOptions ==
    [ retries : (0..MaxRetries) \cup {Undefined},
      delay : {Undefined, 1000, 2000},
      maxDelay : {Undefined, 3000},
      shouldRetry : ShouldRetryOptions ]

\* const { retries = 3, delay = 1000, maxDelay = 5000, ... } = options
retriesOf(opts) == IF opts.retries = Undefined THEN DefaultRetries ELSE opts.retries
delayOf(opts) == IF opts.delay = Undefined THEN DefaultDelay ELSE opts.delay
maxDelayOf(opts) == IF opts.maxDelay = Undefined THEN DefaultMaxDelay ELSE opts.maxDelay

backoffDelay_Uncapped(delay, attempt, maxDelay) == delay * Pow2(attempt)

\* Math.min(delay * Math.pow(2, attempt), maxDelay)
backoffDelay(delay, attempt, maxDelay) == Min(delay * Pow2(attempt), maxDelay)

isLastAttempt_OffByOne(attempt, retries) == attempt + 1 >= retries

\* if (attempt === retries) break;
isLastAttempt(attempt, retries) == attempt = retries

\* analyzeNews is not running.
NewsIdle ==
    /\ n_pc = "idle"
    /\ n_articles = <<>>
    /\ n_existing = {}
    /\ n_lookup = "pending"
    /\ n_unique = <<>>
    /\ n_i = 0
    /\ n_allScored = <<>>
    /\ n_titleFiltered = <<>>
    /\ n_inflight = {}
    /\ n_settled = <<>>
    /\ n_outcomes = <<>>
    /\ n_withImages = <<>>
    /\ n_sortedWithImage = <<>>
    /\ n_sortedNoImage = <<>>
    /\ n_qualityFiltered = <<>>
    /\ n_responses = <<>>
    /\ n_analysis = <<>>
    /\ n_success = FALSE
    /\ n_output = <<>>
    /\ n_llmCalls = 0
    /\ n_fetches = 0
    /\ n_llmFor = {}
    /\ n_fetchFor = {}
    /\ n_titleCalls = <<>>
    /\ n_error = NoError

\* generateDailyReport is not running.
ReportIdle ==
    /\ d_pc = "idle"
    /\ d_opts = [skipQualityEvaluation |-> FALSE, skipEvidenceRelevanceCheck |-> FALSE]
    /\ d_articles = <<>>
    /\ d_supplied = <<>>
    /\ d_keyInsights = <<>>
    /\ d_val = <<>>
    /\ d_reportData = <<>>
    /\ d_store = <<>>
    /\ d_stored = FALSE
    /\ d_result = "pending"

\* calculateRecencyScore is not being applied.
RecencyIdle ==
    /\ c_pc = "idle"
    /\ c_pubDates = <<>>
    /\ c_scores = <<>>

\* No daily report is stored and none is being saved.
DigestIdle ==
    /\ p_reports = {}
    /\ p_nextId = 1
    /\ p_runs = 0
    /\ p_returned = <<>>

\* No article is stored and none is being saved.
DbIdle ==
    /\ a_articles = {}
    /\ a_nextId = 1
    /\ b_articles = <<>>
    /\ b_idx = <<>>
    /\ b_pc = <<>>
    /\ b_results = <<>>
    /\ b_savedCount = <<>>

HandlesIdle ==
    /\ h_job = "idle"
    /\ h_client = <<>>
    /\ h_clients = 0
    /\ h_prisma = 0
    /\ h_handles = 0
    /\ h_obtained = <<>>

JobIdle ==
    /\ j_kind = "idle"
    /\ j_pc = "idle"
    /\ j_timeout = "none"
    /\ j_db = "none"
    /\ j_saved = {}
    /\ j_exit = Undefined

TransformIdle ==
    /\ t_pc = "idle"
    /\ t_articles = <<>>
    /\ t_aiResponse = <<>>
    /\ t_reportData = <<>>

ExamplesIdle ==
    /\ x_pc = "idle"
    /\ x_article = <<>>
    /\ x_store = <<>>
    /\ x_dbExamples = <<>>
    /\ x_examples = <<>>

FetchIdle ==
    /\ f_pc = "idle"
    /\ f_attempts = <<>>
    /\ f_settled = <<>>
    /\ f_result = <<>>

InitRetry ==
    /\ TransformIdle
    /\ ExamplesIdle
    /\ FetchIdle
    /\ HandlesIdle
    /\ JobIdle
    /\ NewsIdle
    /\ ReportIdle
    /\ RecencyIdle
    /\ DigestIdle
    /\ DbIdle
    /\ r_pc = "call"
    /\ r_opts \in RetryOptions
    /\ r_attempt = 0
    /\ r_lastError = RetryFailed
    /\ r_calls = 0
    /\ r_errors = <<>>
    /\ r_waits = <<>>

\* try { return await fn(); } with fn() fulfilled
AttemptSucceeds ==
    /\ r_pc = "call"
    /\ r_attempt <= retriesOf(r_opts)
    /\ r_calls' = r_calls + 1
    /\ r_pc' = "returned"
    /\ UNCHANGED <<r_opts, r_attempt, r_lastError, r_errors, r_waits>>
    /\ UNCHANGED exceptRetry

\* fn() rejected with `message`: the catch block
AttemptFails(message) ==
    /\ r_pc = "call"
    /\ r_attempt <= retriesOf(r_opts)
    /\ r_calls' = r_calls + 1
    /\ r_lastError' = message
    /\ r_errors' = Append(r_errors, message)
    /\ IF isNonRetryableError(message)
         THEN /\ r_pc' = "thrown"
              /\ UNCHANGED <<r_attempt, r_waits>>
         ELSE IF r_opts.shouldRetry # "absent" /\ ~shouldRetry(r_opts.shouldRetry, message)
         THEN /\ r_pc' = "thrown"
              /\ UNCHANGED <<r_attempt, r_waits>>
         ELSE IF isLastAttempt(r_attempt, retriesOf(r_opts))
         THEN /\ r_pc' = "thrown"      \* break; throw lastError
              /\ UNCHANGED <<r_attempt, r_waits>>
         ELSE /\ r_pc' = "sleep"
              /\ r_waits' = Append(r_waits,
                     backoffDelay(delayOf(r_opts), r_attempt, maxDelayOf(r_opts)))
              /\ UNCHANGED r_attempt
    /\ UNCHANGED r_opts
    /\ UNCHANGED exceptRetry

\* the setTimeout promise resolves; the loop increments attempt
BackoffElapsed ==
    /\ r_pc = "sleep"
    /\ r_attempt' = r_attempt + 1
    /\ r_pc' = "call"
    /\ UNCHANGED <<r_opts, r_lastError, r_calls, r_errors, r_waits>>
    /\ UNCHANGED exceptRetry

NextRetry ==
    \/ AttemptSucceeds
    \/ \E message \in ErrorMessages : AttemptFails(message)
    \/ BackoffElapsed

SpecRetry == InitRetry /\ [][NextRetry]_vars

\* withRetry is not running.
RetryIdle ==
    /\ r_pc = "idle"
    /\ r_opts = [retries |-> Undefined, delay |-> Undefined,
                 maxDelay |-> Undefined, shouldRetry |-> "absent"]
    /\ r_attempt = 0
    /\ r_lastError = RetryFailed
    /\ r_calls = 0
    /\ r_errors = <<>>
    /\ r_waits = <<>>

----------------------------------------------------------------------------
(* utils: calculateRecencyScore.  Times are minutes. *)

\* Date.now() during the run.
Now == 3000

\* The same steps with the bonuses of the first two swapped.
calculateRecencyScore_Swapped(pubDate, now) ==
    IF pubDate = Undefined THEN 0
    ELSE LET diffMinutes == now - pubDate
         IN  IF diffMinutes < 0 THEN 10
             ELSE IF diffMinutes <= 1 * 60 THEN 15
             ELSE IF diffMinutes <= 6 * 60 THEN 20
             ELSE IF diffMinutes <= 12 * 60 THEN 10
             ELSE IF diffMinutes <= 24 * 60 THEN 5
             ELSE 0

calculateRecencyScore(pubDate, now) ==
    IF pubDate = Undefined THEN 0
    ELSE LET diffMinutes == now - pubDate
         IN  IF diffMinutes < 0 THEN 10
             ELSE IF diffMinutes <= 1 * 60 THEN 20
             ELSE IF diffMinutes <= 6 * 60 THEN 15
             ELSE IF diffMinutes <= 12 * 60 THEN 10
             ELSE IF diffMinutes <= 24 * 60 THEN 5
             ELSE 0

\* Elapsed minutes at and around every step of calculateRecencyScore; a
\* negative one is a publication date later than now.
ElapsedMinutes == {-60, -1, 0, 1, 60, 61, 360, 361, 720, 721, 1440, 1441}

\* pubDate arguments: undefined / null, or a date.
RecencyPubDates == {Undefined} \cup {Now - m : m \in ElapsedMinutes}

\* calculateRecencyScore is about to be applied to two publication dates.
InitRecency ==
    /\ TransformIdle
    /\ ExamplesIdle
    /\ FetchIdle
    /\ HandlesIdle
    /\ JobIdle
    /\ RetryIdle
    /\ NewsIdle
    /\ ReportIdle
    /\ DigestIdle
    /\ DbIdle
    /\ c_pc = "apply"
    /\ c_pubDates \in RecencyPubDates \X RecencyPubDates
    /\ c_scores = <<Undefined, Undefined>>

\* calculateRecencyScore(c_pubDates[k]) returns.
CalculateRecencyScore(k) ==
    /\ c_pc = "apply"
    /\ c_scores[k] = Undefined
    /\ c_scores' = [c_scores EXCEPT ![k] = calculateRecencyScore(c_pubDates[k], Now)]
    /\ c_pc' = IF \A j \in {1, 2} \ {k} : c_scores[j] # Undefined
                THEN "done" ELSE "apply"
    /\ UNCHANGED c_pubDates
    /\ UNCHANGED exceptRecency

NextRecency == \E k \in {1, 2} : CalculateRecencyScore(k)

SpecRecency == InitRecency /\ [][NextRecency]_vars

----------------------------------------------------------------------------
(* news analyzer: analyzeNews and its stages *)

\* Largest number of candidates handed to analyzeNews.
MaxArticles == 4

\* config.openai.titleFilterLimit (30 in the source, scaled to the model).
titleFilterLimit == 3

\* config.openai.qualityFilterLimit (20 in the source, scaled to the model).
qualityFilterLimit == 2

\* filterByTitles: batchSize (50 in the source, scaled to the model).
batchSize == 2

\* extractImagesForArticles: CONCURRENCY_LIMIT (5 in the source, scaled).
CONCURRENCY_LIMIT == 2

\* Scores assigned when a scoring response is unusable or lacks an entry.
TitleDefaultScore == 50
TitleMissingScore == 0
TitleBypassScore == 100
QualityDefaultScore == 50

\* Publication dates of the candidates: none, or half an hour ago.
PubDates == {Undefined, Now - 30}

\* Scores a schema-valid scoring response can carry for an article
\* (Undefined: the response has no entry for the article's index).
TitleScoreChoices == {Undefined, 30, 50}
QualityScoreChoices == {Undefined, 30, 50}

\* Ways a text-generation call yields no usable response: an error out of
\* withRetry (retries exhausted, or non-retryable), an empty message, text
\* that is not JSON, JSON that fails the schema.
CallFailures == {"error", "fatal", "empty", "unparsable", "schema"}

\* Outcomes of one page fetch in extractImageUrl.
FetchOutcomes == {"image", "noImage", "notOk", "threw"}

\* The article at input position id.
RawNewsArticle(id, pubDate) ==
    [id |-> id, pubDate |-> pubDate, titleScore |-> Undefined,
     imageUrl |-> Undefined, qualityScore |-> Undefined]

\* The image URL found on the page of article id.
ImageUrlOf(id) == 1000 + id

RECURSIVE SelectDesc(_, _)
SelectDesc(keys, remaining) ==
    IF remaining = {} THEN <<>>
    ELSE LET best == CHOOSE i \in remaining :
                        \A j \in remaining :
                            keys[i] > keys[j] \/ (keys[i] = keys[j] /\ i <= j)
         IN  <<best>> \o SelectDesc(keys, remaining \ {best})

\* Array.prototype.sort((a, b) => key(b) - key(a)): a stable descending sort.
\* keys[k] is the key of list[k].
SortDescBy(list, keys) ==
    LET order == SelectDesc(keys, 1..Len(list))
    IN  [k \in 1..Len(list) |-> list[order[k]]]

Slice_Whole(list, n) == list

\* Array.prototype.slice(0, n)
Slice(list, n) == SubSeq(list, 1, Min(n, Len(list)))

\* Array.prototype.filter
RECURSIVE FilterSeq(_, _)
FilterSeq(list, keep) ==
    IF list = <<>> THEN <<>>
    ELSE (IF keep[1] THEN <<Head(list)>> ELSE <<>>)
         \o FilterSeq(Tail(list), Tail(keep))

compositeTitleScore(a) == a.titleScore + calculateRecencyScore(a.pubDate, Now)

compositeQualityScore(a) == a.qualityScore + calculateRecencyScore(a.pubDate, Now)

sortByCompositeTitleScore(list) ==
    SortDescBy(list, [k \in 1..Len(list) |-> compositeTitleScore(list[k])])

sortByCompositeQualityScore_Unsorted(list) == list

sortByCompositeQualityScore(list) ==
    SortDescBy(list, [k \in 1..Len(list) |-> compositeQualityScore(list[k])])

InitNews ==
    /\ TransformIdle
    /\ ExamplesIdle
    /\ FetchIdle
    /\ HandlesIdle
    /\ JobIdle
    /\ RetryIdle
    /\ ReportIdle
    /\ RecencyIdle
    /\ DigestIdle
    /\ DbIdle
    /\ n_pc = "stage0"
    /\ \E n \in 1..MaxArticles :
        \E dates \in [1..n -> PubDates] :
            n_articles = [k \in 1..n |-> RawNewsArticle(k, dates[k])]
    /\ n_existing = {}
    /\ n_lookup = "pending"
    /\ n_unique = <<>>
    /\ n_i = 0
    /\ n_allScored = <<>>
    /\ n_titleFiltered = <<>>
    /\ n_inflight = {}
    /\ n_settled = <<>>
    /\ n_outcomes = <<>>
    /\ n_withImages = <<>>
    /\ n_sortedWithImage = <<>>
    /\ n_sortedNoImage = <<>>
    /\ n_qualityFiltered = <<>>
    /\ n_responses = <<>>
    /\ n_analysis = <<>>
    /\ n_success = FALSE
    /\ n_output = <<>>
    /\ n_llmCalls = 0
    /\ n_fetches = 0
    /\ n_llmFor = {}
    /\ n_fetchFor = {}
    /\ n_titleCalls = <<>>
    /\ n_error = NoError

\* return { success: true, articles }
Return(articles) ==
    /\ n_pc' = "done"
    /\ n_success' = TRUE
    /\ n_output' = articles

filterDuplicates_KeepAll(articles, existingLinks) == articles

\* filterDuplicates, the try block: existingLinks is what getExistingLinks
\* answered.
filterDuplicates(articles, existingLinks) ==
    IF existingLinks = {} THEN articles
    ELSE FilterSeq(articles,
             [k \in 1..Len(articles) |-> articles[k].id \notin existingLinks])

filterDuplicatesCatch_Empty(articles) == <<>>

\* filterDuplicates, the catch block
filterDuplicatesCatch(articles) == articles

\* analyzeNews: if (articles.length === 0) return { success: true, articles: [] }
EmptyInput ==
    /\ n_pc = "stage0"
    /\ n_articles = <<>>
    /\ Return(<<>>)
    /\ UNCHANGED <<n_articles, n_existing, n_lookup, n_unique, n_i, n_allScored,
                   n_titleFiltered, n_inflight, n_settled, n_outcomes, n_withImages,
                   n_sortedWithImage, n_sortedNoImage, n_qualityFiltered,
                   n_analysis, n_responses, n_llmCalls, n_llmFor, n_fetches,
                   n_fetchFor, n_titleCalls, n_error>>
    /\ UNCHANGED exceptNews

\* Stage 0, filterDuplicates: getExistingLinks answers with the stored links.
FilterDuplicates(existing) ==
    /\ n_pc = "stage0"
    /\ n_articles # <<>>
    /\ n_existing' = existing
    /\ n_lookup' = "answered"
    /\ LET newArticles == filterDuplicates(n_articles, existing)
       IN  /\ n_unique' = newArticles
           /\ IF newArticles = <<>>
                THEN Return(<<>>)
                ELSE n_pc' = "stage1" /\ UNCHANGED <<n_success, n_output>>
    /\ UNCHANGED <<n_articles, n_i, n_allScored, n_titleFiltered, n_inflight,
                   n_settled, n_outcomes, n_withImages, n_sortedWithImage, n_sortedNoImage,
                   n_qualityFiltered, n_analysis, n_responses, n_llmCalls, n_llmFor,
                   n_fetches, n_fetchFor, n_titleCalls, n_error>>
    /\ UNCHANGED exceptNews

\* Stage 0, filterDuplicates: getExistingLinks throws; every article proceeds.
FilterDuplicatesDbFails ==
    /\ n_pc = "stage0"
    /\ n_articles # <<>>
    /\ n_lookup' = "threw"
    /\ n_unique' = filterDuplicatesCatch(n_articles)
    /\ IF n_unique' = <<>>
         THEN Return(<<>>)
         ELSE n_pc' = "stage1" /\ UNCHANGED <<n_success, n_output>>
    /\ UNCHANGED <<n_articles, n_existing, n_i, n_allScored, n_titleFiltered,
                   n_inflight, n_settled, n_outcomes, n_withImages, n_sortedWithImage, n_sortedNoImage,
                   n_qualityFiltered, n_analysis, n_responses,
                   n_llmCalls, n_llmFor, n_fetches, n_fetchFor, n_titleCalls, n_error>>
    /\ UNCHANGED exceptNews

bypassesTitleScoring_Strict(n) == n < titleFilterLimit

\* filterByTitles: if (articles.length <= config.openai.titleFilterLimit)
bypassesTitleScoring(n) == n <= titleFilterLimit

\* filterByTitles, the branch articles.length <= titleFilterLimit
filterByTitlesBypass(articles) ==
    [k \in 1..Len(articles) |-> [articles[k] EXCEPT !.titleScore = TitleBypassScore]]

\* Stage 1 without scoring.
FilterByTitlesBypass ==
    /\ n_pc = "stage1"
    /\ bypassesTitleScoring(Len(n_unique))
    /\ n_titleFiltered' = filterByTitlesBypass(n_unique)
    /\ n_pc' = "images"
    /\ n_i' = 0
    /\ UNCHANGED <<n_articles, n_existing, n_lookup, n_unique, n_allScored, n_inflight,
                   n_settled, n_outcomes, n_withImages, n_sortedWithImage, n_sortedNoImage,
                   n_qualityFiltered, n_analysis, n_responses, n_success,
                   n_output, n_llmCalls, n_llmFor, n_fetches, n_fetchFor, n_titleCalls, n_error>>
    /\ UNCHANGED exceptNews

scoreTitleBatch_Discard(batch, usable, scores) ==
    IF ~usable
    THEN <<>>
    ELSE [k \in 1..Len(batch) |->
            [batch[k] EXCEPT !.titleScore =
                IF scores[k] = Undefined THEN TitleMissingScore ELSE scores[k]]]

\* scoreTitleBatch: the value it returns.  scores = Undefined: the catch
\* block or the safeParse failure; otherwise scores[k] is the score the
\* response carries for batch[k] (Undefined when it has no such entry).
scoreTitleBatch(batch, usable, scores) ==
    IF ~usable
    THEN [k \in 1..Len(batch) |-> [batch[k] EXCEPT !.titleScore = TitleDefaultScore]]
    ELSE [k \in 1..Len(batch) |->
            [batch[k] EXCEPT !.titleScore =
                IF scores[k] = Undefined THEN TitleMissingScore ELSE scores[k]]]

selectTopTitles_NoSort(allScored) == Slice(allScored, titleFilterLimit)

\* filterByTitles: allScored.sort(...); allScored.slice(0, titleFilterLimit)
selectTopTitles(allScored) ==
    Slice(sortByCompositeTitleScore(allScored), titleFilterLimit)

\* The batch the loop of filterByTitles is at.
TitleBatch == SubSeq(n_unique, n_i + 1, Min(n_i + batchSize, Len(n_unique)))

titleCallsSettled_NoAwait(calls) == TRUE

\* filterByTitles: `await scoreTitleBatch(client, batch, i)` inside the for
\* loop: an iteration begins only when the call of the one before it settled.
titleCallsSettled(calls) ==
    \A k \in 1..Len(calls) : calls[k].status # "inflight"

\* filterByTitles: one iteration of the batch loop calls scoreTitleBatch,
\* which issues the text-generation call for batch.
ScoreTitleBatchCalls ==
    /\ n_pc = "stage1"
    /\ ~bypassesTitleScoring(Len(n_unique))
    /\ titleCallsSettled(n_titleCalls)
    /\ Len(n_titleCalls) < MaxArticles
    /\ n_titleCalls' = Append(n_titleCalls,
                          [from |-> n_i, size |-> Len(TitleBatch), status |-> "inflight"])
    /\ n_llmCalls' = n_llmCalls + 1
    /\ n_llmFor' = n_llmFor \cup {TitleBatch[k].id : k \in 1..Len(TitleBatch)}
    /\ UNCHANGED <<n_pc, n_articles, n_existing, n_lookup, n_unique, n_i, n_allScored,
                   n_titleFiltered, n_inflight, n_settled, n_outcomes,
                   n_withImages, n_sortedWithImage, n_sortedNoImage, n_qualityFiltered,
                   n_analysis, n_responses, n_success, n_output, n_fetches, n_fetchFor, n_error>>
    /\ UNCHANGED exceptNews

\* The call of scoreTitleBatch that has not settled yet.
PendingTitleCall ==
    CHOOSE k \in 1..Len(n_titleCalls) : n_titleCalls[k].status = "inflight"

\* scoreTitleBatch returns and the loop of filterByTitles pushes its result;
\* after the last batch the sort and the slice.
TitleBatchScored(scoredBatch, status) ==
    /\ \E k \in 1..Len(n_titleCalls) : n_titleCalls[k].status = "inflight"
    /\ n_titleCalls' = [n_titleCalls EXCEPT ![PendingTitleCall].status = status]
    /\ IF n_i + batchSize < Len(n_unique)
         THEN /\ n_i' = n_i + batchSize
              /\ n_allScored' = n_allScored \o scoredBatch
              /\ UNCHANGED <<n_pc, n_titleFiltered>>
         ELSE /\ n_i' = 0
              /\ n_allScored' = sortByCompositeTitleScore(n_allScored \o scoredBatch)
              /\ n_titleFiltered' = selectTopTitles(n_allScored \o scoredBatch)
              /\ n_pc' = "images"
    /\ UNCHANGED <<n_articles, n_existing, n_lookup, n_unique, n_inflight, n_settled, n_outcomes,
                   n_withImages, n_sortedWithImage, n_sortedNoImage, n_qualityFiltered,
                   n_analysis, n_responses, n_success, n_output, n_llmCalls, n_llmFor,
                   n_fetches, n_fetchFor, n_error>>
    /\ UNCHANGED exceptNews

\* scoreTitleBatch: the call threw, the message was empty or not JSON, or
\* safeParse failed.
ScoreTitleBatchFails(failure) ==
    /\ n_pc = "stage1"
    /\ ~bypassesTitleScoring(Len(n_unique))
    /\ failure \in CallFailures
    /\ TitleBatchScored(scoreTitleBatch(TitleBatch, FALSE, <<>>), failure)

\* scoreTitleBatch: the response passed safeParse.
ScoreTitleBatchParsed(scores) ==
    /\ n_pc = "stage1"
    /\ ~bypassesTitleScoring(Len(n_unique))
    /\ TitleBatchScored(scoreTitleBatch(TitleBatch, TRUE, scores), "parsed")

extractImageUrl_AlwaysImage(id, outcome) == ImageUrlOf(id)

\* extractImageUrl: the URL it resolves to (null becomes undefined).
extractImageUrl(id, outcome) ==
    IF outcome = "image" THEN ImageUrlOf(id) ELSE Undefined

ImageBatch_Rest == (n_i + 1)..Len(n_titleFiltered)

\* The positions of the batch the loop of extractImagesForArticles is at.
ImageBatch == (n_i + 1)..Min(n_i + CONCURRENCY_LIMIT, Len(n_titleFiltered))

\* extractImagesForArticles: batch.map(async ...) starts every fetch of the
\* batch; Promise.allSettled awaits them.
ImageBatchStart ==
    /\ n_pc = "images"
    /\ n_i < Len(n_titleFiltered)
    /\ n_inflight' = ImageBatch
    /\ n_settled' = [pos \in ImageBatch |-> Undefined]
    /\ UNCHANGED n_outcomes
    /\ n_fetches' = n_fetches + Cardinality(ImageBatch)
    /\ n_fetchFor' = n_fetchFor \cup {n_titleFiltered[k].id : k \in ImageBatch}
    /\ n_pc' = "imagesWait"
    /\ UNCHANGED <<n_articles, n_existing, n_lookup, n_unique, n_i, n_allScored,
                   n_titleFiltered, n_withImages, n_sortedWithImage, n_sortedNoImage,
                   n_qualityFiltered, n_analysis, n_responses, n_success,
                   n_output, n_llmCalls, n_llmFor, n_titleCalls, n_error>>
    /\ UNCHANGED exceptNews

\* One fetch of the running batch settles.
FetchSettles(pos, outcome) ==
    /\ n_pc = "imagesWait"
    /\ pos \in n_inflight
    /\ n_inflight' = n_inflight \ {pos}
    /\ n_settled' = [n_settled EXCEPT
                        ![pos] = extractImageUrl(n_titleFiltered[pos].id, outcome)]
    /\ n_outcomes' = n_outcomes @@ (pos :> outcome)
    /\ UNCHANGED <<n_pc, n_articles, n_existing, n_lookup, n_unique, n_i, n_allScored,
                   n_titleFiltered, n_withImages, n_sortedWithImage, n_sortedNoImage,
                   n_qualityFiltered, n_analysis, n_responses, n_success,
                   n_output, n_llmCalls, n_llmFor, n_fetches, n_fetchFor, n_titleCalls, n_error>>
    /\ UNCHANGED exceptNews

\* Promise.allSettled resolves: the batch's results are pushed in batch
\* order and the loop goes on; after the last batch filterByQuality resumes.
ImageBatchJoin ==
    /\ n_pc = "imagesWait"
    /\ n_inflight = {}
    /\ n_withImages' = n_withImages \o
           [k \in 1..Cardinality(ImageBatch) |->
               [n_titleFiltered[n_i + k] EXCEPT !.imageUrl = n_settled[n_i + k]]]
    /\ n_settled' = <<>>
    /\ UNCHANGED n_outcomes
    /\ IF n_i + CONCURRENCY_LIMIT < Len(n_titleFiltered)
         THEN n_i' = n_i + CONCURRENCY_LIMIT /\ n_pc' = "images"
         ELSE n_i' = 0 /\ n_pc' = "quality"
    /\ UNCHANGED <<n_articles, n_existing, n_lookup, n_unique, n_allScored,
                   n_titleFiltered, n_inflight, n_sortedWithImage, n_sortedNoImage,
                   n_qualityFiltered, n_analysis, n_responses, n_success,
                   n_output, n_llmCalls, n_llmFor, n_fetches, n_fetchFor, n_titleCalls, n_error>>
    /\ UNCHANGED exceptNews

\* filterByQuality: withImages.filter((a) => a.imageUrl)
hasImage(withImages) ==
    FilterSeq(withImages,
        [k \in 1..Len(withImages) |-> withImages[k].imageUrl # Undefined])

\* filterByQuality: withImages.filter((a) => !a.imageUrl)
noImage(withImages) ==
    FilterSeq(withImages,
        [k \in 1..Len(withImages) |-> withImages[k].imageUrl = Undefined])

\* scoreQualityBatch: the value it returns (see scoreTitleBatch).
scoreQualityBatch(articles, usable, scores) ==
    IF ~usable
    THEN [k \in 1..Len(articles) |->
            [articles[k] EXCEPT !.qualityScore = QualityDefaultScore]]
    ELSE [k \in 1..Len(articles) |->
            [articles[k] EXCEPT !.qualityScore =
                IF scores[k] = Undefined THEN QualityDefaultScore ELSE scores[k]]]

\* filterByQuality: const remaining = qualityFilterLimit - hasImage.length
remaining(withImages) == qualityFilterLimit - Len(hasImage(withImages))

selectByQuality_NoSlice(qualityScored) == sortByCompositeQualityScore(qualityScored)

\* filterByQuality, the branch hasImage.length >= qualityFilterLimit
selectByQuality(qualityScored) ==
    Slice(sortByCompositeQualityScore(qualityScored), qualityFilterLimit)

fillWithNoImage_NoImageFirst(sortedWithImage, sortedNoImage, n) ==
    Slice(sortedNoImage, n) \o sortedWithImage

\* filterByQuality: [...sortedWithImage, ...sortedNoImage.slice(0, remaining)]
fillWithNoImage(sortedWithImage, sortedNoImage, n) ==
    sortedWithImage \o Slice(sortedNoImage, n)

\* filterByQuality resumes with the scores of the image-bearing articles.
WithImageScored(qualityScored, calls) ==
    /\ n_llmCalls' = n_llmCalls + calls
    /\ n_llmFor' = IF calls = 0 THEN n_llmFor
                  ELSE n_llmFor \cup {qualityScored[k].id : k \in 1..Len(qualityScored)}
    /\ IF Len(hasImage(n_withImages)) >= qualityFilterLimit
         THEN /\ n_qualityFiltered' = selectByQuality(qualityScored)
              /\ n_pc' = "stage3"
              /\ UNCHANGED n_sortedWithImage
         ELSE /\ n_sortedWithImage' = sortByCompositeQualityScore(qualityScored)
              /\ IF remaining(n_withImages) > 0 /\ Len(noImage(n_withImages)) > 0
                   THEN n_pc' = "qualityNoImage" /\ UNCHANGED n_qualityFiltered
                   ELSE /\ n_pc' = "stage3"
                        /\ n_qualityFiltered' =
                              fillWithNoImage(sortByCompositeQualityScore(qualityScored),
                                              <<>>, remaining(n_withImages))
    /\ UNCHANGED <<n_articles, n_existing, n_lookup, n_unique, n_i, n_allScored,
                   n_titleFiltered, n_inflight, n_settled, n_outcomes, n_withImages,
                   n_sortedNoImage, n_analysis, n_responses, n_success,
                   n_output, n_fetches, n_fetchFor, n_titleCalls, n_error>>
    /\ UNCHANGED exceptNews

\* scoreQualityBatch([]) returns [] without a call.
ScoreQualityWithImageSkipped ==
    /\ n_pc = "quality"
    /\ hasImage(n_withImages) = <<>>
    /\ WithImageScored(<<>>, 0)

ScoreQualityWithImageFails(failure) ==
    /\ n_pc = "quality"
    /\ hasImage(n_withImages) # <<>>
    /\ failure \in CallFailures
    /\ WithImageScored(scoreQualityBatch(hasImage(n_withImages), FALSE, <<>>), 1)

ScoreQualityWithImageParsed(scores) ==
    /\ n_pc = "quality"
    /\ hasImage(n_withImages) # <<>>
    /\ WithImageScored(scoreQualityBatch(hasImage(n_withImages), TRUE, scores), 1)

\* filterByQuality resumes with the scores of the articles without image.
NoImageScored(qualityScored) ==
    /\ n_llmCalls' = n_llmCalls + 1
    /\ n_llmFor' = n_llmFor \cup {qualityScored[k].id : k \in 1..Len(qualityScored)}
    /\ n_sortedNoImage' = sortByCompositeQualityScore(qualityScored)
    /\ n_qualityFiltered' =
          fillWithNoImage(n_sortedWithImage,
                          sortByCompositeQualityScore(qualityScored),
                          remaining(n_withImages))
    /\ n_pc' = "stage3"
    /\ UNCHANGED <<n_articles, n_existing, n_lookup, n_unique, n_i, n_allScored,
                   n_titleFiltered, n_inflight, n_settled, n_outcomes, n_withImages,
                   n_sortedWithImage, n_analysis, n_responses, n_success,
                   n_output, n_fetches, n_fetchFor, n_titleCalls, n_error>>
    /\ UNCHANGED exceptNews

ScoreQualityNoImageFails(failure) ==
    /\ n_pc = "qualityNoImage"
    /\ failure \in CallFailures
    /\ NoImageScored(scoreQualityBatch(noImage(n_withImages), FALSE, <<>>))

ScoreQualityNoImageParsed(scores) ==
    /\ n_pc = "qualityNoImage"
    /\ NoImageScored(scoreQualityBatch(noImage(n_withImages), TRUE, scores))

\* What a detailed-analysis call can come back with: an error out of
\* withRetry after its retries ("error") or at once, non-retryable
\* ("fatal"), an empty message, text that is not JSON, or a JSON object, of
\* which the model keeps importance_score and the number of keywords.
NoResponse ==
    [kind |-> "pending", importance_score |-> Undefined, keywords |-> Undefined]

AnalysisResponses ==
    { [kind |-> "error", importance_score |-> Undefined, keywords |-> Undefined],
      [kind |-> "fatal", importance_score |-> Undefined, keywords |-> Undefined],
      [kind |-> "empty", importance_score |-> Undefined, keywords |-> Undefined],
      [kind |-> "unparsable", importance_score |-> Undefined, keywords |-> Undefined],
      [kind |-> "json", importance_score |-> 7, keywords |-> 3],
      [kind |-> "json", importance_score |-> 11, keywords |-> 3],
      [kind |-> "json", importance_score |-> 7, keywords |-> 2] }

\* NewsAnalysisResultSchema.parse succeeds
NewsAnalysisResultSchema(json) ==
    /\ json.importance_score >= 1
    /\ json.importance_score <= 10
    /\ json.keywords >= 3
    /\ json.keywords <= 7

\* analyzeArticleWithAI returned null
NullAnalysis ==
    [isNull |-> TRUE, importance_score |-> Undefined, keywords |-> Undefined]

analyzeArticleWithAI_Fallback(response) ==
    IF response.kind = "json" /\ NewsAnalysisResultSchema(response)
    THEN [isNull |-> FALSE, importance_score |-> response.importance_score,
          keywords |-> response.keywords]
    ELSE [isNull |-> FALSE, importance_score |-> 5, keywords |-> 0]

\* analyzeArticleWithAI: the parsed analysis, or null from the catch block
analyzeArticleWithAI(response) ==
    IF response.kind = "json" /\ NewsAnalysisResultSchema(response)
    THEN [isNull |-> FALSE, importance_score |-> response.importance_score,
          keywords |-> response.keywords]
    ELSE NullAnalysis

\* analyzeArticlesInParallel: articles.map(async ...) starts every analysis.
AnalysisStart ==
    /\ n_pc = "stage3"
    /\ n_inflight' = 1..Len(n_qualityFiltered)
    /\ n_analysis' = [pos \in 1..Len(n_qualityFiltered) |-> NullAnalysis]
    /\ n_responses' = [pos \in 1..Len(n_qualityFiltered) |-> NoResponse]
    /\ n_llmCalls' = n_llmCalls + Len(n_qualityFiltered)
    /\ n_llmFor' = n_llmFor \cup {n_qualityFiltered[k].id : k \in 1..Len(n_qualityFiltered)}
    /\ n_pc' = "stage3Wait"
    /\ UNCHANGED <<n_articles, n_existing, n_lookup, n_unique, n_i, n_allScored,
                   n_titleFiltered, n_settled, n_outcomes, n_withImages, n_sortedWithImage, n_sortedNoImage,
                   n_qualityFiltered, n_success, n_output, n_fetches, n_fetchFor, n_titleCalls, n_error>>
    /\ UNCHANGED exceptNews

\* One analyzeArticleWithAI promise resolves.
AnalysisSettles(pos, response) ==
    /\ n_pc = "stage3Wait"
    /\ pos \in n_inflight
    /\ n_inflight' = n_inflight \ {pos}
    /\ n_responses' = [n_responses EXCEPT ![pos] = response]
    /\ n_analysis' = [n_analysis EXCEPT ![pos] = analyzeArticleWithAI(response)]
    /\ UNCHANGED <<n_pc, n_articles, n_existing, n_lookup, n_unique, n_i, n_allScored,
                   n_titleFiltered, n_settled, n_outcomes, n_withImages, n_sortedWithImage, n_sortedNoImage,
                   n_qualityFiltered, n_success, n_output, n_llmCalls, n_llmFor, n_fetches, n_fetchFor, n_titleCalls, n_error>>
    /\ UNCHANGED exceptNews

\* An AnalyzedNewsArticle built from an article and its analysis.
AnalyzedNewsArticle(article, analysis) ==
    [id |-> article.id, pubDate |-> article.pubDate, imageUrl |-> article.imageUrl,
     importanceScore |-> analysis.importance_score, keywords |-> analysis.keywords]

analyzedArticles_AllOrNothing(articles, analysis) ==
    IF \E k \in 1..Len(articles) : analysis[k].isNull
    THEN <<>>
    ELSE [k \in 1..Len(articles) |-> AnalyzedNewsArticle(articles[k], analysis[k])]

\* analyzeArticlesInParallel: results.filter(analysis !== null).map(...)
analyzedArticles(articles, analysis) ==
    LET all == [k \in 1..Len(articles) |->
                    AnalyzedNewsArticle(articles[k], analysis[k])]
    IN  FilterSeq(all, [k \in 1..Len(articles) |-> ~analysis[k].isNull])

\* Promise.all resolves; analyzeNews returns.
AnalyzeNewsReturns ==
    /\ n_pc = "stage3Wait"
    /\ n_inflight = {}
    /\ Return(analyzedArticles(n_qualityFiltered, n_analysis))
    /\ UNCHANGED <<n_articles, n_existing, n_lookup, n_unique, n_i, n_allScored,
                   n_titleFiltered, n_inflight, n_settled, n_outcomes, n_withImages,
                   n_sortedWithImage, n_sortedNoImage, n_qualityFiltered, n_analysis,
                   n_responses, n_llmCalls, n_llmFor, n_fetches, n_fetchFor, n_titleCalls, n_error>>
    /\ UNCHANGED exceptNews

NextNews ==
    \/ EmptyInput
    \/ \E existing \in SUBSET {n_articles[k].id : k \in 1..Len(n_articles)} :
          FilterDuplicates(existing)
    \/ FilterDuplicatesDbFails
    \/ FilterByTitlesBypass
    \/ ScoreTitleBatchCalls
    \/ \E failure \in CallFailures : ScoreTitleBatchFails(failure)
    \/ \E scores \in [1..Len(TitleBatch) -> TitleScoreChoices] :
          ScoreTitleBatchParsed(scores)
    \/ ImageBatchStart
    \/ \E pos \in n_inflight, outcome \in FetchOutcomes : FetchSettles(pos, outcome)
    \/ ImageBatchJoin
    \/ ScoreQualityWithImageSkipped
    \/ \E failure \in CallFailures : ScoreQualityWithImageFails(failure)
    \/ \E scores \in [1..Len(hasImage(n_withImages)) -> QualityScoreChoices] :
          ScoreQualityWithImageParsed(scores)
    \/ \E failure \in CallFailures : ScoreQualityNoImageFails(failure)
    \/ \E scores \in [1..Len(noImage(n_withImages)) -> QualityScoreChoices] :
          ScoreQualityNoImageParsed(scores)
    \/ AnalysisStart
    \/ \E pos \in n_inflight, response \in AnalysisResponses :
          AnalysisSettles(pos, response)
    \/ AnalyzeNewsReturns

SpecNews == InitNews /\ [][NextNews]_vars

\* filterByTitles alone: analyzeNews is at Stage 1 with uniqueArticles drawn
\* from the candidate lists (nothing was a duplicate).
InitTitle ==
    /\ TransformIdle
    /\ ExamplesIdle
    /\ FetchIdle
    /\ HandlesIdle
    /\ JobIdle
    /\ RetryIdle
    /\ ReportIdle
    /\ RecencyIdle
    /\ DigestIdle
    /\ DbIdle
    /\ n_pc = "stage1"
    /\ \E n \in 1..MaxArticles :
        \E dates \in [1..n -> PubDates] :
            /\ n_articles = [k \in 1..n |-> RawNewsArticle(k, dates[k])]
            /\ n_unique = [k \in 1..n |-> RawNewsArticle(k, dates[k])]
    /\ n_existing = {}
    /\ n_lookup = "pending"
    /\ n_i = 0
    /\ n_allScored = <<>>
    /\ n_titleFiltered = <<>>
    /\ n_inflight = {}
    /\ n_settled = <<>>
    /\ n_outcomes = <<>>
    /\ n_withImages = <<>>
    /\ n_sortedWithImage = <<>>
    /\ n_sortedNoImage = <<>>
    /\ n_qualityFiltered = <<>>
    /\ n_responses = <<>>
    /\ n_analysis = <<>>
    /\ n_success = FALSE
    /\ n_output = <<>>
    /\ n_llmCalls = 0
    /\ n_fetches = 0
    /\ n_llmFor = {}
    /\ n_fetchFor = {}
    /\ n_titleCalls = <<>>
    /\ n_error = NoError

NextTitle ==
    \/ FilterByTitlesBypass
    \/ ScoreTitleBatchCalls
    \/ \E failure \in CallFailures : ScoreTitleBatchFails(failure)
    \/ \E scores \in [1..Len(TitleBatch) -> TitleScoreChoices] :
          ScoreTitleBatchParsed(scores)

SpecTitle == InitTitle /\ [][NextTitle]_vars

\* filterByQuality alone: analyzeNews is at Stage 2 with titleFiltered the
\* result of Stage 1 on at most titleFilterLimit candidates.
InitQuality ==
    /\ TransformIdle
    /\ ExamplesIdle
    /\ FetchIdle
    /\ HandlesIdle
    /\ JobIdle
    /\ RetryIdle
    /\ ReportIdle
    /\ RecencyIdle
    /\ DigestIdle
    /\ DbIdle
    /\ n_pc = "images"
    /\ \E n \in 1..titleFilterLimit :
        \E dates \in [1..n -> PubDates] :
            /\ n_articles = [k \in 1..n |-> RawNewsArticle(k, dates[k])]
            /\ n_unique = [k \in 1..n |-> RawNewsArticle(k, dates[k])]
            /\ n_titleFiltered =
                  filterByTitlesBypass([k \in 1..n |-> RawNewsArticle(k, dates[k])])
    /\ n_existing = {}
    /\ n_lookup = "pending"
    /\ n_i = 0
    /\ n_allScored = <<>>
    /\ n_inflight = {}
    /\ n_settled = <<>>
    /\ n_outcomes = <<>>
    /\ n_withImages = <<>>
    /\ n_sortedWithImage = <<>>
    /\ n_sortedNoImage = <<>>
    /\ n_qualityFiltered = <<>>
    /\ n_responses = <<>>
    /\ n_analysis = <<>>
    /\ n_success = FALSE
    /\ n_output = <<>>
    /\ n_llmCalls = 0
    /\ n_fetches = 0
    /\ n_llmFor = {}
    /\ n_fetchFor = {}
    /\ n_titleCalls = <<>>
    /\ n_error = NoError

NextQuality ==
    \/ ImageBatchStart
    \/ \E pos \in n_inflight, outcome \in FetchOutcomes : FetchSettles(pos, outcome)
    \/ ImageBatchJoin
    \/ ScoreQualityWithImageSkipped
    \/ \E failure \in CallFailures : ScoreQualityWithImageFails(failure)
    \/ \E scores \in [1..Len(hasImage(n_withImages)) -> QualityScoreChoices] :
          ScoreQualityWithImageParsed(scores)
    \/ \E failure \in CallFailures : ScoreQualityNoImageFails(failure)
    \/ \E scores \in [1..Len(noImage(n_withImages)) -> QualityScoreChoices] :
          ScoreQualityNoImageParsed(scores)

SpecQuality == InitQuality /\ [][NextQuality]_vars

\* Stage 3 alone: analyzeNews is at Stage 3 with qualityFiltered a result of
\* Stage 2 (at most qualityFilterLimit articles, with or without image).
InitAnalyze ==
    /\ TransformIdle
    /\ ExamplesIdle
    /\ FetchIdle
    /\ HandlesIdle
    /\ JobIdle
    /\ RetryIdle
    /\ ReportIdle
    /\ RecencyIdle
    /\ DigestIdle
    /\ DbIdle
    /\ n_pc = "stage3"
    /\ \E n \in 1..qualityFilterLimit :
        \E dates \in [1..n -> PubDates], images \in [1..n -> BOOLEAN] :
            /\ n_articles = [k \in 1..n |-> RawNewsArticle(k, dates[k])]
            /\ n_unique = [k \in 1..n |-> RawNewsArticle(k, dates[k])]
            /\ n_qualityFiltered =
                  [k \in 1..n |->
                      [id |-> k, pubDate |-> dates[k],
                       titleScore |-> TitleBypassScore,
                       imageUrl |-> IF images[k] THEN ImageUrlOf(k) ELSE Undefined,
                       qualityScore |-> QualityDefaultScore]]
    /\ n_existing = {}
    /\ n_lookup = "pending"
    /\ n_i = 0
    /\ n_allScored = <<>>
    /\ n_titleFiltered = <<>>
    /\ n_inflight = {}
    /\ n_settled = <<>>
    /\ n_outcomes = <<>>
    /\ n_withImages = <<>>
    /\ n_sortedWithImage = <<>>
    /\ n_sortedNoImage = <<>>
    /\ n_responses = <<>>
    /\ n_analysis = <<>>
    /\ n_success = FALSE
    /\ n_output = <<>>
    /\ n_llmCalls = 0
    /\ n_fetches = 0
    /\ n_llmFor = {}
    /\ n_fetchFor = {}
    /\ n_titleCalls = <<>>
    /\ n_error = NoError

NextAnalyze ==
    \/ AnalysisStart
    \/ \E pos \in n_inflight, response \in AnalysisResponses :
          AnalysisSettles(pos, response)
    \/ AnalyzeNewsReturns

SpecAnalyze == InitAnalyze /\ [][NextAnalyze]_vars

\* analyzeNews from its call to its return, on candidates without
\* publication date.  The answers explored: scores 30 or 50, a call that
\* throws, a page with or without a reachable image, an analysis that is
\* valid or fails.
PipelineScores == {30, 50}
PipelineFailures == {"error"}
PipelineFetchOutcomes == {"image", "threw"}
PipelineResponses ==
    {response \in AnalysisResponses :
        response.kind = "error" \/ NewsAnalysisResultSchema(response)}

InitPipeline ==
    /\ TransformIdle
    /\ ExamplesIdle
    /\ FetchIdle
    /\ HandlesIdle
    /\ JobIdle
    /\ RetryIdle
    /\ ReportIdle
    /\ RecencyIdle
    /\ DigestIdle
    /\ DbIdle
    /\ n_pc = "stage0"
    /\ \E n \in 0..MaxArticles :
          n_articles = [k \in 1..n |-> RawNewsArticle(k, Undefined)]
    /\ n_existing = {}
    /\ n_lookup = "pending"
    /\ n_unique = <<>>
    /\ n_i = 0
    /\ n_allScored = <<>>
    /\ n_titleFiltered = <<>>
    /\ n_inflight = {}
    /\ n_settled = <<>>
    /\ n_outcomes = <<>>
    /\ n_withImages = <<>>
    /\ n_sortedWithImage = <<>>
    /\ n_sortedNoImage = <<>>
    /\ n_qualityFiltered = <<>>
    /\ n_responses = <<>>
    /\ n_analysis = <<>>
    /\ n_success = FALSE
    /\ n_output = <<>>
    /\ n_llmCalls = 0
    /\ n_fetches = 0
    /\ n_llmFor = {}
    /\ n_fetchFor = {}
    /\ n_titleCalls = <<>>
    /\ n_error = NoError

\* The steps of analyzeNews on a non-empty argument.
NextStages ==
    \/ \E existing \in SUBSET {n_articles[k].id : k \in 1..Len(n_articles)} :
          FilterDuplicates(existing)
    \/ FilterDuplicatesDbFails
    \/ FilterByTitlesBypass
    \/ ScoreTitleBatchCalls
    \/ \E failure \in PipelineFailures : ScoreTitleBatchFails(failure)
    \/ \E scores \in [1..Len(TitleBatch) -> PipelineScores] :
          ScoreTitleBatchParsed(scores)
    \/ ImageBatchStart
    \/ \E pos \in n_inflight, outcome \in PipelineFetchOutcomes :
          FetchSettles(pos, outcome)
    \/ ImageBatchJoin
    \/ ScoreQualityWithImageSkipped
    \/ \E failure \in PipelineFailures : ScoreQualityWithImageFails(failure)
    \/ \E scores \in [1..Len(hasImage(n_withImages)) -> PipelineScores] :
          ScoreQualityWithImageParsed(scores)
    \/ \E failure \in PipelineFailures : ScoreQualityNoImageFails(failure)
    \/ \E scores \in [1..Len(noImage(n_withImages)) -> PipelineScores] :
          ScoreQualityNoImageParsed(scores)
    \/ AnalysisStart
    \/ \E pos \in n_inflight, response \in PipelineResponses :
          AnalysisSettles(pos, response)
    \/ AnalyzeNewsReturns

NextPipeline ==
    \/ EmptyInput
    \/ NextStages

SpecPipeline == InitPipeline /\ [][NextPipeline]_vars

\* analyzeNews from Stage 2 to its return: Stage 1 has passed at most
\* titleFilterLimit candidates; every outcome of a page fetch is explored.
InitEnrich == InitQuality

NextEnrich ==
    \/ NextQuality
    \/ AnalysisStart
    \/ \E pos \in n_inflight, response \in PipelineResponses :
          AnalysisSettles(pos, response)
    \/ AnalyzeNewsReturns

SpecEnrich == InitEnrich /\ [][NextEnrich]_vars

----------------------------------------------------------------------------
(* daily report: generateDailyReport, validateEvidence *)

\* Largest number of articles stored for the report date.
MaxDayArticles == 4

\* analyzeForDailyReport: articles.slice(0, 30) (30 in the source, scaled).
TopArticles == 3

\* generateDailyReport: fewer articles than this and no report is made.
MinArticles == 3

\* DailyReportAIResponseSchema: keyInsights min(2), evidence min(2).  The
\* responses explored have exactly the minimum of each.
MinKeyInsights == 2
MinEvidence == 2

\* validateEvidence: relevanceThreshold = 5
DefaultRelevanceThreshold == 5

\* An article id that no stored article has.
NonexistentId == 9999

\* Math.round(num / den), num >= 0, den > 0
RoundDiv(num, den) == (2 * num + den) \div (2 * den)

\* The ids of the day's articles, in the order of getDailyArticles
\* (importance first).
DayArticles(n) == [k \in 1..n |-> k]

SeqToSet(list) == {list[k] : k \in 1..Len(list)}

\* articleId values a schema-valid response can carry in an evidence item:
\* null, the id of the most important article, the id of the least
\* important one, an id of no article.
EvidenceIdChoices(n) == {Undefined, 1, n, NonexistentId}

\* Relevance scores the semantic check can answer with.
RelevanceScores == {4, 5}

\* overallScore values the quality evaluation can answer with.
OverallScores == {80}

GenerateDailyReportOptions ==
    [skipQualityEvaluation : BOOLEAN, skipEvidenceRelevanceCheck : BOOLEAN]

\* extractAllEvidences: the evidence of every insight, in order
RECURSIVE extractAllEvidences(_)
extractAllEvidences(keyInsights) ==
    IF keyInsights = <<>> THEN <<>>
    ELSE Head(keyInsights) \o extractAllEvidences(Tail(keyInsights))

validateArticleIdExists_NoLookup(articleId, articleIds) ==
    [isValid |-> TRUE,
     reason |-> IF articleId = Undefined \/ articleId = 0 THEN "external" ELSE "validId",
     reasonId |-> Undefined]

\* validateArticleIdExists: !articleId, then articleIds.has(articleId)
validateArticleIdExists(articleId, articleIds) ==
    IF articleId = Undefined \/ articleId = 0
    THEN [isValid |-> TRUE, reason |-> "external", reasonId |-> Undefined]
    ELSE IF articleId \in articleIds
    THEN [isValid |-> TRUE, reason |-> "validId", reasonId |-> Undefined]
    ELSE [isValid |-> FALSE, reason |-> "nonexistent", reasonId |-> articleId]

\* One entry of validationResults.
EvidenceValidationItem(articleId, isValid, reason, reasonId, relevanceScore) ==
    [articleId |-> articleId, isValid |-> isValid, reason |-> reason,
     reasonId |-> reasonId, relevanceScore |-> relevanceScore]

\* The locals of validateEvidence before its loop.
ValidationStart ==
    [k |-> 0, details |-> <<>>, validCount |-> 0, invalidCount |-> 0, calls |-> {}]

\* reportData.evidenceValidation / qualityEvaluation / qualityScore unset.
NoValidation ==
    [set |-> FALSE, totalEvidences |-> 0, validCount |-> 0, invalidCount |-> 0,
     validationRate |-> 0, details |-> <<>>]

EmptyReportData ==
    [evidenceValidation |-> NoValidation, qualityEvaluation |-> Undefined,
     qualityScore |-> Undefined]

evidenceValidationResult_Truncated(val) ==
    LET totalEvidences == Len(val.details)
    IN  [set |-> TRUE,
         totalEvidences |-> totalEvidences,
         validCount |-> val.validCount,
         invalidCount |-> val.invalidCount,
         validationRate |->
             IF totalEvidences > 0
             THEN (val.validCount * 1000) \div totalEvidences
             ELSE 1000,
         details |-> val.details]

\* The EvidenceValidation validateEvidence returns; validationRate in tenths
\* of a percent: Math.round(validationRate * 10) / 10.
evidenceValidationResult(val) ==
    LET totalEvidences == Len(val.details)
    IN  [set |-> TRUE,
         totalEvidences |-> totalEvidences,
         validCount |-> val.validCount,
         invalidCount |-> val.invalidCount,
         validationRate |->
             IF totalEvidences > 0
             THEN RoundDiv(val.validCount * 1000, totalEvidences)
             ELSE 1000,
         details |-> val.details]

RECURSIVE SumSeq(_)
SumSeq(list) == IF list = <<>> THEN 0 ELSE Head(list) + SumSeq(Tail(list))

\* calculateEvidenceScore, in tenths
calculateEvidenceScore(validation) ==
    IF validation.totalEvidences = 0 THEN 1000
    ELSE LET scored == FilterSeq(validation.details,
                          [k \in 1..Len(validation.details) |->
                              validation.details[k].relevanceScore # Undefined])
             relevanceScores == [k \in 1..Len(scored) |-> scored[k].relevanceScore]
         IN  IF Len(relevanceScores) > 0
             THEN RoundDiv(9 * validation.validationRate * Len(relevanceScores)
                               + 100 * SumSeq(relevanceScores),
                           10 * Len(relevanceScores))
             ELSE validation.validationRate

\* calculateFinalQualityScore, in tenths: round((ai * 0.6 + evidence * 0.4) * 10)
calculateFinalQualityScore(overallScore, evidenceScore) ==
    RoundDiv(60 * overallScore + 4 * evidenceScore, 10)

InitReport ==
    /\ TransformIdle
    /\ ExamplesIdle
    /\ FetchIdle
    /\ HandlesIdle
    /\ JobIdle
    /\ RetryIdle
    /\ NewsIdle
    /\ RecencyIdle
    /\ DigestIdle
    /\ DbIdle
    /\ d_pc = "getArticles"
    /\ d_opts \in GenerateDailyReportOptions
    /\ d_articles = <<>>
    /\ d_supplied = <<>>
    /\ d_keyInsights = <<>>
    /\ d_val = ValidationStart
    /\ d_reportData = EmptyReportData
    /\ d_store = EmptyReportData
    /\ d_stored = FALSE
    /\ d_result = "pending"

\* return { success: false, error }
ReportFails ==
    /\ d_pc' = "done"
    /\ d_result' = "failure"

tooFewArticles_OnlyEmpty(n) == n = 0

\* if (articles.length === 0) ...; if (articles.length < 3) ...
tooFewArticles(n) == n = 0 \/ n < MinArticles

\* getDailyArticles answers with the n articles of the date; with at least
\* MinArticles analyzeForDailyReport sends the first TopArticles of them.
GetDailyArticles(n) ==
    /\ d_pc = "getArticles"
    /\ d_articles' = DayArticles(n)
    /\ IF tooFewArticles(n)
         THEN ReportFails /\ UNCHANGED d_supplied
         ELSE /\ d_pc' = "synth"
              /\ d_supplied' = Slice(DayArticles(n), TopArticles)
              /\ UNCHANGED d_result
    /\ UNCHANGED <<d_opts, d_keyInsights, d_val, d_reportData, d_store, d_stored>>
    /\ UNCHANGED exceptReport

\* getDailyArticles throws.
GetDailyArticlesFails ==
    /\ d_pc = "getArticles"
    /\ ReportFails
    /\ UNCHANGED <<d_opts, d_articles, d_supplied, d_keyInsights, d_val,
                   d_reportData, d_store, d_stored>>
    /\ UNCHANGED exceptReport

\* analyzeForDailyReport throws: an error out of withRetry, an empty
\* message, or a response that DailyReportAIResponseSchema rejects.
AnalyzeForDailyReportFails(failure) ==
    /\ d_pc = "synth"
    /\ failure \in CallFailures
    /\ ReportFails
    /\ UNCHANGED <<d_opts, d_articles, d_supplied, d_keyInsights, d_val,
                   d_reportData, d_store, d_stored>>
    /\ UNCHANGED exceptReport

\* transformAIResponseToReportData: the evidence of each insight keeps the
\* articleId of the response (null becomes undefined).
transformAIResponseToReportData(evidenceIds) ==
    [i \in 1..Len(evidenceIds) |->
        [j \in 1..Len(evidenceIds[i]) |-> [articleId |-> evidenceIds[i][j]]]]

\* analyzeForDailyReport returns a schema-valid response; the report data is
\* built and, unless skipped, validateEvidence starts.
AnalyzeForDailyReportResponds(evidenceIds) ==
    /\ d_pc = "synth"
    /\ d_keyInsights' = transformAIResponseToReportData(evidenceIds)
    /\ d_reportData' = EmptyReportData
    /\ d_val' = ValidationStart
    /\ d_pc' = IF d_opts.skipQualityEvaluation THEN "save" ELSE "validate"
    /\ UNCHANGED <<d_opts, d_articles, d_supplied, d_store, d_stored, d_result>>
    /\ UNCHANGED exceptReport

\* validateEvidence: the evidence the loop is at, and its local check.
CurrentEvidence == extractAllEvidences(d_keyInsights)[d_val.k + 1]

CurrentIdValidation ==
    validateArticleIdExists(CurrentEvidence.articleId, SeqToSet(d_articles))

wantsRelevanceCheck_WheneverEnabled == ~d_opts.skipEvidenceRelevanceCheck

\* checkRelevance && evidence.articleId
wantsRelevanceCheck ==
    /\ ~d_opts.skipEvidenceRelevanceCheck
    /\ CurrentEvidence.articleId # Undefined
    /\ CurrentEvidence.articleId # 0

InValidationLoop ==
    /\ d_pc = "validate"
    /\ d_val.k < Len(extractAllEvidences(d_keyInsights))

ValidationStep(item, valid, called) ==
    /\ d_val' = [k |-> d_val.k + 1,
                 details |-> Append(d_val.details, item),
                 validCount |-> d_val.validCount + (IF valid THEN 1 ELSE 0),
                 invalidCount |-> d_val.invalidCount + (IF valid THEN 0 ELSE 1),
                 calls |-> IF called THEN d_val.calls \cup {d_val.k + 1}
                           ELSE d_val.calls]
    /\ UNCHANGED <<d_pc, d_opts, d_articles, d_supplied, d_keyInsights,
                   d_reportData, d_store, d_stored, d_result>>
    /\ UNCHANGED exceptReport

\* if (!idValidation.isValid) { invalidCount++; ...; continue; }
ValidateIdInvalid ==
    /\ InValidationLoop
    /\ ~CurrentIdValidation.isValid
    /\ ValidationStep(
           EvidenceValidationItem(CurrentEvidence.articleId, FALSE,
               CurrentIdValidation.reason, CurrentIdValidation.reasonId, Undefined),
           FALSE, FALSE)

\* the else branch: the relevance check is skipped
ValidateWithoutRelevance ==
    /\ InValidationLoop
    /\ CurrentIdValidation.isValid
    /\ ~wantsRelevanceCheck
    /\ ValidationStep(
           EvidenceValidationItem(CurrentEvidence.articleId, TRUE,
               CurrentIdValidation.reason, CurrentIdValidation.reasonId, Undefined),
           TRUE, FALSE)

relevanceVerdict_Strict(articleId, relevanceScore, relevanceThreshold) ==
    IF relevanceScore > relevanceThreshold
    THEN EvidenceValidationItem(articleId, TRUE, "relevant", Undefined, relevanceScore)
    ELSE EvidenceValidationItem(articleId, FALSE, "lowRelevance", Undefined,
                                relevanceScore)

\* validateEvidence: if (relevance.relevanceScore >= relevanceThreshold)
\* the item is pushed valid with the reasoning, else invalid with the score
\* and the reasoning in the reason.
relevanceVerdict(articleId, relevanceScore, relevanceThreshold) ==
    IF relevanceScore >= relevanceThreshold
    THEN EvidenceValidationItem(articleId, TRUE, "relevant", Undefined, relevanceScore)
    ELSE EvidenceValidationItem(articleId, FALSE, "lowRelevance", Undefined,
                                relevanceScore)

\* checkEvidenceRelevance answers with relevanceScore
ValidateRelevanceScored(relevanceScore) ==
    /\ InValidationLoop
    /\ CurrentIdValidation.isValid
    /\ wantsRelevanceCheck
    /\ LET item == relevanceVerdict(CurrentEvidence.articleId, relevanceScore,
                                    DefaultRelevanceThreshold)
       IN  ValidationStep(item, item.isValid, TRUE)

relevanceCheckCatch_Invalid(articleId) ==
    EvidenceValidationItem(articleId, FALSE, "relevanceCheckFailed", Undefined, Undefined)

\* validateEvidence, the catch block around checkEvidenceRelevance: the item
\* is pushed valid, without relevanceScore.
relevanceCheckCatch(articleId) ==
    EvidenceValidationItem(articleId, TRUE, "relevanceCheckFailed", Undefined, Undefined)

\* checkEvidenceRelevance throws (an error out of withRetry, an empty
\* message, a response the schema rejects): only the local check applies
ValidateRelevanceFails(failure) ==
    /\ InValidationLoop
    /\ CurrentIdValidation.isValid
    /\ wantsRelevanceCheck
    /\ failure \in CallFailures
    /\ LET item == relevanceCheckCatch(CurrentEvidence.articleId)
       IN  ValidationStep(item, item.isValid, TRUE)

\* validateEvidence returns; evaluateReportQuality is called.
ValidateEvidenceReturns ==
    /\ d_pc = "validate"
    /\ d_val.k = Len(extractAllEvidences(d_keyInsights))
    /\ d_reportData' = [d_reportData EXCEPT
                           !.evidenceValidation = evidenceValidationResult(d_val)]
    /\ d_pc' = "evaluate"
    /\ UNCHANGED <<d_opts, d_articles, d_supplied, d_keyInsights, d_val,
                   d_store, d_stored, d_result>>
    /\ UNCHANGED exceptReport

\* evaluateReportQuality returns; the final score is computed.
EvaluateReportQuality(overallScore) ==
    /\ d_pc = "evaluate"
    /\ d_reportData' = [d_reportData EXCEPT
           !.qualityEvaluation = overallScore,
           !.qualityScore = calculateFinalQualityScore(overallScore,
                                calculateEvidenceScore(d_reportData.evidenceValidation))]
    /\ d_pc' = "save"
    /\ UNCHANGED <<d_opts, d_articles, d_supplied, d_keyInsights, d_val,
                   d_store, d_stored, d_result>>
    /\ UNCHANGED exceptReport

evalErrorCatch_Rethrown == [pc |-> "done", result |-> "failure"]

\* catch (evalError) { log(...) }: the error is logged, nothing is returned,
\* generateDailyReport goes on to saveDailyReport.
evalErrorCatch == [pc |-> "save", result |-> "pending"]

\* evaluateReportQuality throws: catch (evalError), the save goes on.
EvaluateReportQualityFails(failure) ==
    /\ d_pc = "evaluate"
    /\ failure \in CallFailures
    /\ d_pc' = evalErrorCatch.pc
    /\ d_result' = evalErrorCatch.result
    /\ UNCHANGED <<d_opts, d_articles, d_supplied, d_keyInsights, d_val,
                   d_reportData, d_store, d_stored>>
    /\ UNCHANGED exceptReport

\* db.dailyReport.upsert, the `update` object on the row of the date: a
\* field whose value is undefined is not part of the update and keeps what
\* the row holds.
dailyReportUpdate(row, report) ==
    [evidenceValidation |-> IF report.evidenceValidation.set
                            THEN report.evidenceValidation
                            ELSE row.evidenceValidation,
     qualityEvaluation |-> IF report.qualityEvaluation # Undefined
                           THEN report.qualityEvaluation
                           ELSE row.qualityEvaluation,
     qualityScore |-> IF report.qualityScore # Undefined
                      THEN report.qualityScore
                      ELSE row.qualityScore]

\* saveDailyReport: the upsert by reportDate, `create` without a row of the
\* date and `update` with one
SaveDailyReport ==
    /\ d_pc = "save"
    /\ d_store' = IF d_stored THEN dailyReportUpdate(d_store, d_reportData)
                   ELSE d_reportData
    /\ d_stored' = TRUE
    /\ d_pc' = "done"
    /\ d_result' = "success"
    /\ UNCHANGED <<d_opts, d_articles, d_supplied, d_keyInsights, d_val, d_reportData>>
    /\ UNCHANGED exceptReport

\* saveDailyReport throws.
SaveDailyReportFails ==
    /\ d_pc = "save"
    /\ ReportFails
    /\ UNCHANGED <<d_opts, d_articles, d_supplied, d_keyInsights, d_val,
                   d_reportData, d_store, d_stored>>
    /\ UNCHANGED exceptReport

NextReport ==
    \/ \E n \in 0..MaxDayArticles : GetDailyArticles(n)
    \/ GetDailyArticlesFails
    \/ \E failure \in CallFailures : AnalyzeForDailyReportFails(failure)
    \/ \E evidenceIds \in [1..MinKeyInsights ->
                              [1..MinEvidence -> EvidenceIdChoices(Len(d_articles))]] :
          AnalyzeForDailyReportResponds(evidenceIds)
    \/ ValidateIdInvalid
    \/ ValidateWithoutRelevance
    \/ \E relevanceScore \in RelevanceScores : ValidateRelevanceScored(relevanceScore)
    \/ \E failure \in CallFailures : ValidateRelevanceFails(failure)
    \/ ValidateEvidenceReturns
    \/ \E overallScore \in OverallScores : EvaluateReportQuality(overallScore)
    \/ \E failure \in CallFailures : EvaluateReportQualityFails(failure)
    \/ SaveDailyReport
    \/ SaveDailyReportFails

SpecReport == InitReport /\ [][NextReport]_vars

\* overallScore of the quality evaluation of an earlier run for the date.
PriorOverallScore == 70

\* The digest an earlier, fully evaluated run stored for the date: its
\* evidence (external sources, no articleId) all valid.
PriorReportData ==
    LET item == EvidenceValidationItem(Undefined, TRUE, "external", Undefined, Undefined)
        validation == evidenceValidationResult(
                          [k |-> MinKeyInsights * MinEvidence,
                           details |-> [k \in 1..(MinKeyInsights * MinEvidence) |-> item],
                           validCount |-> MinKeyInsights * MinEvidence,
                           invalidCount |-> 0,
                           calls |-> {}])
    IN  [evidenceValidation |-> validation,
         qualityEvaluation |-> PriorOverallScore,
         qualityScore |-> calculateFinalQualityScore(PriorOverallScore,
                              calculateEvidenceScore(validation))]

\* generateDailyReport for a date that has a digest already.
InitRegenerate ==
    /\ TransformIdle
    /\ ExamplesIdle
    /\ FetchIdle
    /\ HandlesIdle
    /\ JobIdle
    /\ RetryIdle
    /\ NewsIdle
    /\ RecencyIdle
    /\ DigestIdle
    /\ DbIdle
    /\ d_pc = "getArticles"
    /\ d_opts \in GenerateDailyReportOptions
    /\ d_articles = <<>>
    /\ d_supplied = <<>>
    /\ d_keyInsights = <<>>
    /\ d_val = ValidationStart
    /\ d_reportData = EmptyReportData
    /\ d_store = PriorReportData
    /\ d_stored = TRUE
    /\ d_result = "pending"

SpecRegenerate == InitRegenerate /\ [][NextReport]_vars

----------------------------------------------------------------------------
(* daily report: validateEvidence called on its own, on any digest *)

\* The digests validateEvidence is given: the number of evidence items of
\* each insight, from a digest without insights to two insights of two.
DigestShapes == {<<>>, <<0>>, <<1>>, <<2>>, <<1, 2>>, <<2, 2>>}

\* validateEvidence(report, articles, options) is entered: the corpus has
\* MinArticles articles, the relevance check is on or off.
InitValidate ==
    /\ TransformIdle
    /\ ExamplesIdle
    /\ FetchIdle
    /\ HandlesIdle
    /\ JobIdle
    /\ RetryIdle
    /\ NewsIdle
    /\ RecencyIdle
    /\ DigestIdle
    /\ DbIdle
    /\ d_pc = "validate"
    /\ d_opts \in {o \in GenerateDailyReportOptions : ~o.skipQualityEvaluation}
    /\ d_articles = DayArticles(MinArticles)
    /\ d_supplied = <<>>
    /\ \E shape \in DigestShapes :
          d_keyInsights \in
              {transformAIResponseToReportData(evidenceIds) :
                  evidenceIds \in
                      {ids \in [1..Len(shape) ->
                                   UNION {[1..m -> EvidenceIdChoices(MinArticles)] :
                                              m \in 0..MinEvidence}] :
                          \A i \in 1..Len(shape) : Len(ids[i]) = shape[i]}}
    /\ d_val = ValidationStart
    /\ d_reportData = EmptyReportData
    /\ d_store = EmptyReportData
    /\ d_stored = FALSE
    /\ d_result = "pending"

NextValidate ==
    \/ ValidateIdInvalid
    \/ ValidateWithoutRelevance
    \/ \E relevanceScore \in RelevanceScores : ValidateRelevanceScored(relevanceScore)
    \/ \E failure \in CallFailures : ValidateRelevanceFails(failure)
    \/ ValidateEvidenceReturns

SpecValidate == InitValidate /\ [][NextValidate]_vars

----------------------------------------------------------------------------
(* daily report: transformAIResponseToReportData, the related articles *)

\* Most article references in one highlight list, section or insight of the
\* responses explored.
MaxRefs == 2

\* importanceScore of a stored article that has one.
StoredImportance == 8

\* The corpus: MinArticles articles with ids 1..MinArticles; the first has an
\* importanceScore or none.
NewsRecords ==
    {[k \in 1..MinArticles |->
         [id |-> k,
          importanceScore |-> IF k = 1 THEN first ELSE StoredImportance]] :
     first \in {Undefined, StoredImportance}}

\* Ids a schema-valid response can refer to (z.number().int().positive()).
ReferencedIds == {1, MinArticles, NonexistentId}

IdLists == UNION {[1..m -> ReferencedIds] : m \in 0..MaxRefs}

\* The references of a response: relatedArticleId of each highlight,
\* relatedArticleIds of a section and of an insight.
AIResponseReferences ==
    [highlights : [1..MaxRefs -> ReferencedIds],
     sections : [1..1 -> IdLists],
     keyInsights : [1..1 -> IdLists]]

\* buildArticleUrl: `${ARTICLE_BASE_URL}/${articleId}`
buildArticleUrl(articleId) == <<"articleBaseUrl", articleId>>

\* new Map(articles.map((a) => [a.id, a]))
articlesMapOf(articles) == [id \in {articles[k].id : k \in 1..Len(articles)} |->
                               CHOOSE a \in SeqToSet(articles) : a.id = id]

\* The RelatedArticle of a stored article: importance is importanceScore ?? 5
relatedArticleOf(article) ==
    [id |-> article.id,
     title |-> <<"title", article.id>>,
     url |-> buildArticleUrl(article.id),
     importance |-> IF article.importanceScore = Undefined THEN 5
                    ELSE article.importanceScore]

\* The entry a highlight gets for an id that articlesMap does not have.
placeholderArticle(id) ==
    [id |-> id, title |-> <<"noArticleInfo">>, url |-> buildArticleUrl(id),
     importance |-> 5]

\* highlights.map: articlesMap.get(h.relatedArticleId), the article or the
\* placeholder
highlightRelatedArticle(id, articlesMap) ==
    IF id \in DOMAIN articlesMap THEN relatedArticleOf(articlesMap[id])
    ELSE placeholderArticle(id)

buildRelatedArticlesFromIds_Placeholders(ids, articlesMap) ==
    [k \in 1..Len(ids) |-> highlightRelatedArticle(ids[k], articlesMap)]

\* buildRelatedArticlesFromIds: ids.filter(articlesMap.has).map(...)
buildRelatedArticlesFromIds(ids, articlesMap) ==
    LET kept == FilterSeq(ids, [k \in 1..Len(ids) |-> ids[k] \in DOMAIN articlesMap])
    IN  [k \in 1..Len(kept) |-> relatedArticleOf(articlesMap[kept[k]])]

\* transformAIResponseToReportData, the related articles of the report data
transformRelatedArticles(aiResponse, articles) ==
    LET articlesMap == articlesMapOf(articles)
    IN  [highlights |->
             [k \in 1..Len(aiResponse.highlights) |->
                 highlightRelatedArticle(aiResponse.highlights[k], articlesMap)],
         sections |->
             [k \in 1..Len(aiResponse.sections) |->
                 buildRelatedArticlesFromIds(aiResponse.sections[k], articlesMap)],
         keyInsights |->
             [k \in 1..Len(aiResponse.keyInsights) |->
                 buildRelatedArticlesFromIds(aiResponse.keyInsights[k], articlesMap)]]

InitTransform ==
    /\ HandlesIdle
    /\ JobIdle
    /\ RetryIdle
    /\ NewsIdle
    /\ ReportIdle
    /\ RecencyIdle
    /\ DigestIdle
    /\ DbIdle
    /\ ExamplesIdle
    /\ FetchIdle
    /\ t_pc = "start"
    /\ t_articles \in NewsRecords
    /\ t_aiResponse \in AIResponseReferences
    /\ t_reportData = <<>>

\* generateDailyReport: const reportData =
\* transformAIResponseToReportData(aiResponse, articles, date)
TransformAIResponseToReportData ==
    /\ t_pc = "start"
    /\ t_reportData' = transformRelatedArticles(t_aiResponse, t_articles)
    /\ t_pc' = "done"
    /\ UNCHANGED <<t_articles, t_aiResponse>>
    /\ UNCHANGED exceptTransform

NextTransform == TransformAIResponseToReportData

SpecTransform == InitTransform /\ [][NextTransform]_vars

----------------------------------------------------------------------------
(* prompt builder: buildAnalysisPrompt, selectRelevantExamples *)

\* selectRelevantExamples: getExamplesForPrompt(article, 2)
ExampleLimit == 2

\* Most rows of the exemplar store that match one query.
MaxStoreRows == 3

\* ANALYSIS_EXAMPLES: POLICY_EXAMPLE, EARNINGS_EXAMPLE, MACRO_EXAMPLE
ANALYSIS_EXAMPLES ==
    <<[origin |-> "static", category |-> "policy", region |-> "US"],
      [origin |-> "static", category |-> "earnings", region |-> "KR"],
      [origin |-> "static", category |-> "macro", region |-> "US"]>>

\* categoryKeywords, its keys in insertion order
categoryKeywords == <<"policy", "earnings", "macro", "markets", "trade", "finance">>

\* A title is the set of categories one of whose keywords it contains.
ArticleTitles == SUBSET {"policy", "earnings", "macro", "markets"}

\* article.region; "none" when the article has none.
ArticleRegions == {"US", "KR", "none"}

\* The rows a query of getExamplesForPrompt matches, in the order of the
\* query; a row is complete when headlineSummary, soWhat, impactAnalysis and
\* relatedContext are all set.
StoreRows == UNION {[1..m -> BOOLEAN] : m \in 0..MaxStoreRows}

\* getExamplesForPrompt: the exemplars (take: limit) and, when they are
\* fewer than limit, the high-rated rows (take: remaining)
getExamplesForPrompt(store, limit) ==
    LET exemplars == Slice(store.exemplars, limit)
    IN  IF Len(exemplars) >= limit THEN exemplars
        ELSE exemplars \o Slice(store.highRated, limit - Len(exemplars))

\* dbExamples.map(convertToAnalysisExample).filter(ex => ex !== null): a row
\* without one of the four fields converts to null.
convertedExamples(dbExamples) ==
    LET complete == FilterSeq(dbExamples, dbExamples)
    IN  [k \in 1..Len(complete) |->
            [origin |-> "db", category |-> "stored", region |-> "stored"]]

\* for (const [category, keywords] of Object.entries(categoryKeywords)):
\* the first category with a keyword in the title, "none" for null
RECURSIVE inferCategory(_, _)
inferCategory(title, categories) ==
    IF categories = <<>> THEN "none"
    ELSE IF Head(categories) \in title THEN Head(categories)
    ELSE inferCategory(title, Tail(categories))

\* Array.prototype.find on ANALYSIS_EXAMPLES: the first example that
\* satisfies the predicate (matches[k] for the k-th), as a list of at most one
findExample(examples, matches) ==
    LET found == {k \in 1..Len(examples) : matches[k]}
    IN  IF found = {} THEN <<>>
        ELSE <<examples[CHOOSE k \in found : \A other \in found : k <= other]>>

\* selectRelevantExamples, the static fallback: the example of the inferred
\* category, the first example of the article's region in another
\* category, and ANALYSIS_EXAMPLES[0] when neither exists.
staticExamples(article) ==
    LET inferredCategory == inferCategory(article.title, categoryKeywords)
        hasCategory == [k \in 1..Len(ANALYSIS_EXAMPLES) |->
                           ANALYSIS_EXAMPLES[k].category = inferredCategory]
        categoryExample == IF inferredCategory # "none"
                           THEN findExample(ANALYSIS_EXAMPLES, hasCategory)
                           ELSE <<>>
        otherOfRegion ==
            [k \in 1..Len(ANALYSIS_EXAMPLES) |->
                /\ ANALYSIS_EXAMPLES[k].region = article.region
                /\ \A sel \in 1..Len(categoryExample) :
                      categoryExample[sel].category # ANALYSIS_EXAMPLES[k].category]
        regionExample == IF article.region # "none"
                         THEN findExample(ANALYSIS_EXAMPLES, otherOfRegion)
                         ELSE <<>>
        selectedExamples == categoryExample \o regionExample
    IN  IF selectedExamples = <<>> THEN <<ANALYSIS_EXAMPLES[1]>>
        ELSE selectedExamples

selectRelevantExamples_NoFallback(dbExamples, article) ==
    convertedExamples(dbExamples)

\* selectRelevantExamples: the converted examples of the store when there is
\* at least one, else the static ones
selectRelevantExamples(dbExamples, article) ==
    IF Len(dbExamples) > 0 /\ Len(convertedExamples(dbExamples)) > 0
    THEN convertedExamples(dbExamples)
    ELSE staticExamples(article)

InitExamples ==
    /\ HandlesIdle
    /\ JobIdle
    /\ RetryIdle
    /\ NewsIdle
    /\ ReportIdle
    /\ RecencyIdle
    /\ DigestIdle
    /\ DbIdle
    /\ TransformIdle
    /\ FetchIdle
    /\ x_pc = "start"
    /\ x_article \in [title : ArticleTitles, region : ArticleRegions]
    /\ x_store \in [exemplars : StoreRows, highRated : StoreRows]
    /\ x_dbExamples = [failed |-> FALSE, rows |-> <<>>]
    /\ x_examples = <<>>

\* getExamplesForPrompt returns the rows its queries found.
GetExamplesForPromptReturns ==
    /\ x_pc = "start"
    /\ x_dbExamples' = [failed |-> FALSE,
                        rows |-> getExamplesForPrompt(x_store, ExampleLimit)]
    /\ x_pc' = "select"
    /\ UNCHANGED <<x_article, x_store, x_examples>>
    /\ UNCHANGED exceptExamples

\* getPrisma or a query throws: the catch block of getExamplesForPrompt
\* returns [].
GetExamplesForPromptCatches ==
    /\ x_pc = "start"
    /\ x_dbExamples' = [failed |-> TRUE, rows |-> <<>>]
    /\ x_pc' = "select"
    /\ UNCHANGED <<x_article, x_store, x_examples>>
    /\ UNCHANGED exceptExamples

\* selectRelevantExamples returns; buildAnalysisPrompt builds the system and
\* the user prompt with the examples.
SelectRelevantExamples ==
    /\ x_pc = "select"
    /\ x_examples' = selectRelevantExamples(x_dbExamples.rows, x_article)
    /\ x_pc' = "built"
    /\ UNCHANGED <<x_article, x_store, x_dbExamples>>
    /\ UNCHANGED exceptExamples

\* analyzeArticleWithAI: with the prompt built, the analysis call is made.
AnalysisCallMade ==
    /\ x_pc = "built"
    /\ x_pc' = "called"
    /\ UNCHANGED <<x_article, x_store, x_dbExamples, x_examples>>
    /\ UNCHANGED exceptExamples

NextExamples ==
    \/ GetExamplesForPromptReturns
    \/ GetExamplesForPromptCatches
    \/ SelectRelevantExamples
    \/ AnalysisCallMade

SpecExamples == InitExamples /\ [][NextExamples]_vars

----------------------------------------------------------------------------
(* news fetcher: fetchAllNews, fetchFromSource, parseRssFeed *)

\* NEWS_SOURCES.length (more in the source, scaled).
NumSources == 2

\* fetchFromSource: withRetry(..., { retries: 3 }) (3 in the source, scaled).
FetchRetries == 1

\* Most items of a feed.
MaxFeedItems == 2

\* The errors of one fetch attempt: response.ok false, fetch rejecting.
\* Neither message is one isNonRetryableError stops the retries for.
FetchFailures == {"http", "network"}

\* What a source answers with: text the XML parser throws on, or a feed
\* whose items have title and link (TRUE) or lack one of them (FALSE).
FeedBodies ==
    {[malformed |-> TRUE, items |-> <<>>]} \cup
    {[malformed |-> FALSE, items |-> items] :
        items \in UNION {[1..m -> BOOLEAN] : m \in 0..MaxFeedItems}}

PendingSource ==
    [status |-> "pending", outcome |-> "pending", items |-> <<>>, value |-> <<>>]

\* parseRssFeed: parseRssItem gives null for an item without title or link;
\* the catch block returns [].
parseRssFeed(body, source) ==
    IF body.malformed THEN <<>>
    ELSE LET articles == [k \in 1..Len(body.items) |-> [source |-> source, item |-> k]]
         IN  FilterSeq(articles, body.items)

\* fetchFromSource, the catch block: return []
fetchFromSourceCatch ==
    [status |-> "fulfilled", outcome |-> "failed", items |-> <<>>, value |-> <<>>]

RECURSIVE concatValues(_)
concatValues(results) ==
    IF results = <<>> THEN <<>>
    ELSE (IF Head(results).status = "fulfilled" THEN Head(results).value ELSE <<>>)
         \o concatValues(Tail(results))

fetchAllNewsResult_AllOrNothing(results) ==
    IF \E k \in 1..Len(results) : results[k].outcome # "parsed"
    THEN [success |-> FALSE, articles |-> <<>>]
    ELSE [success |-> TRUE, articles |-> concatValues(results)]

\* fetchAllNews: for (const result of results) if (result.status ===
\* "fulfilled") allArticles.push(...result.value); success: true
fetchAllNewsResult(results) ==
    [success |-> TRUE, articles |-> concatValues(results)]

InitFetch ==
    /\ HandlesIdle
    /\ JobIdle
    /\ RetryIdle
    /\ NewsIdle
    /\ ReportIdle
    /\ RecencyIdle
    /\ DigestIdle
    /\ DbIdle
    /\ TransformIdle
    /\ ExamplesIdle
    /\ f_pc = "fetching"
    /\ f_attempts = [source \in 1..NumSources |-> 0]
    /\ f_settled = [source \in 1..NumSources |-> PendingSource]
    /\ f_result = <<>>

\* One attempt of a source fails; after the last attempt withRetry throws
\* and fetchFromSource resolves to [].
FetchAttemptFails(source, failure) ==
    /\ f_pc = "fetching"
    /\ f_settled[source].status = "pending"
    /\ failure \in FetchFailures
    /\ f_attempts' = [f_attempts EXCEPT ![source] = @ + 1]
    /\ f_settled' = IF f_attempts[source] = FetchRetries
                      THEN [f_settled EXCEPT ![source] = fetchFromSourceCatch]
                      ELSE f_settled
    /\ UNCHANGED <<f_pc, f_result>>
    /\ UNCHANGED exceptFetch

\* An attempt of a source succeeds: the body is parsed and fetchFromSource
\* resolves to the articles.
FetchAttemptSucceeds(source, body) ==
    /\ f_pc = "fetching"
    /\ f_settled[source].status = "pending"
    /\ f_settled' = [f_settled EXCEPT ![source] =
                        [status |-> "fulfilled",
                         outcome |-> IF body.malformed THEN "malformed" ELSE "parsed",
                         items |-> body.items,
                         value |-> parseRssFeed(body, source)]]
    /\ UNCHANGED <<f_pc, f_attempts, f_result>>
    /\ UNCHANGED exceptFetch

\* Promise.allSettled resolves; fetchAllNews returns.
FetchAllNewsSettles ==
    /\ f_pc = "fetching"
    /\ \A source \in 1..NumSources : f_settled[source].status # "pending"
    /\ f_result' = fetchAllNewsResult(f_settled)
    /\ f_pc' = "done"
    /\ UNCHANGED <<f_attempts, f_settled>>
    /\ UNCHANGED exceptFetch

NextFetch ==
    \/ \E source \in 1..NumSources, failure \in FetchFailures :
          FetchAttemptFails(source, failure)
    \/ \E source \in 1..NumSources, body \in FeedBodies :
          FetchAttemptSucceeds(source, body)
    \/ FetchAllNewsSettles

SpecFetch == InitFetch /\ [][NextFetch]_vars

----------------------------------------------------------------------------
(* daily report storage: saveDailyReport.  Times are minutes, local time. *)

\* Largest number of saveDailyReport calls in a behaviour.
MaxDigestRuns == 3

MinutesPerDay == 1440

\* report.reportDate values: midnight and early afternoon of one day, the
\* morning and the last minute of the next, midnight of the day after.
ReportDates == {1440, 2220, 3420, 4319, 4320}

\* report.articleCount and report.title (which text the synthesis wrote).
ReportArticleCounts == {3, 4}
ReportTitles == {1, 2}

\* reportDateOnly: new Date(report.reportDate) with setHours(0, 0, 0, 0)
reportDateOnly(reportDate) == reportDate - (reportDate % MinutesPerDay)

\* db.dailyReport.findUnique({ where: { reportDate } }): the matching rows
dailyReportByDate(reports, date) == {row \in reports : row.reportDate = date}

dailyReportUpsert_AlwaysCreate(reports, nextId, report) ==
    reports \cup {[id |-> nextId,
                   reportDate |-> reportDateOnly(report.reportDate),
                   articleCount |-> report.articleCount,
                   title |-> report.title]}

\* db.dailyReport.upsert({ where: { reportDate: reportDateOnly }, create,
\* update }): the rows afterwards.  A row of the date is updated in place
\* (create's fields except reportDate); otherwise a row is created.
dailyReportUpsert(reports, nextId, report) ==
    LET date == reportDateOnly(report.reportDate)
    IN  IF dailyReportByDate(reports, date) # {}
        THEN {IF row.reportDate = date
                THEN [row EXCEPT !.articleCount = report.articleCount,
                                 !.title = report.title]
                ELSE row : row \in reports}
        ELSE reports \cup {[id |-> nextId,
                            reportDate |-> date,
                            articleCount |-> report.articleCount,
                            title |-> report.title]}

InitDigest ==
    /\ TransformIdle
    /\ ExamplesIdle
    /\ FetchIdle
    /\ HandlesIdle
    /\ JobIdle
    /\ RetryIdle
    /\ NewsIdle
    /\ ReportIdle
    /\ RecencyIdle
    /\ DbIdle
    /\ p_reports = {}
    /\ p_nextId = 1
    /\ p_runs = 0
    /\ p_returned = <<>>

\* saveDailyReport(report) returns the stored row.
SaveDailyReportUpserts(report) ==
    /\ p_runs < MaxDigestRuns
    /\ p_reports' = dailyReportUpsert(p_reports, p_nextId, report)
    /\ p_nextId' = IF Cardinality(p_reports') > Cardinality(p_reports)
                     THEN p_nextId + 1 ELSE p_nextId
    /\ p_runs' = p_runs + 1
    /\ LET result == CHOOSE row \in p_reports' :
                         row.reportDate = reportDateOnly(report.reportDate)
       IN  p_returned' = Append(p_returned,
                                [id |-> result.id,
                                 reportDate |-> result.reportDate,
                                 articleCount |-> result.articleCount])
    /\ UNCHANGED exceptDigest

\* saveDailyReport(report) throws: the upsert failed, nothing is written.
SaveDailyReportThrows ==
    /\ p_runs < MaxDigestRuns
    /\ p_runs' = p_runs + 1
    /\ UNCHANGED <<p_reports, p_nextId, p_returned>>
    /\ UNCHANGED exceptDigest

NextDigest ==
    \/ \E reportDate \in ReportDates, articleCount \in ReportArticleCounts,
          title \in ReportTitles :
          SaveDailyReportUpserts([reportDate |-> reportDate,
                                  articleCount |-> articleCount,
                                  title |-> title])
    \/ SaveDailyReportThrows

SpecDigest == InitDigest /\ [][NextDigest]_vars

----------------------------------------------------------------------------
(* database: saveNewsArticle, saveNewsArticles *)

\* Longest `articles` argument of saveNewsArticles.
MaxBatch == 2

\* The concurrent saveNewsArticles calls (overlapping cron runs).
Runs == {1, 2}

\* The links of the articles to save.
Links == {1, 2}

\* Messages of the errors the storage calls throw: the unique-constraint
\* violation on article.link, and failures of the storage itself.
UniqueConstraintError == <<"Unique constraint", "failed on the fields: (link)">>
StorageFailures == { <<"Can't reach database server">> }

\* Every list of at most MaxBatch links, the empty one excluded.
RECURSIVE LinkLists(_)
LinkLists(n) ==
    IF n = 0 THEN {<<>>}
    ELSE LinkLists(n - 1) \cup
         {Append(list, link) : list \in {l \in LinkLists(n - 1) : Len(l) = n - 1},
                               link \in Links}

\* db.article.findUnique({ where: { link } }): the rows it matches
articleByLink(rows, link) == {row \in rows : row.link = link}

saveNewsArticleCatch_Rethrow(message) == "throw"

\* saveNewsArticle, the catch block: null for a unique-constraint error,
\* otherwise the error is thrown again.
saveNewsArticleCatch(message) ==
    IF includes(message, "Unique constraint") THEN "duplicateRace" ELSE "throw"

InitDb ==
    /\ TransformIdle
    /\ ExamplesIdle
    /\ FetchIdle
    /\ HandlesIdle
    /\ JobIdle
    /\ RetryIdle
    /\ NewsIdle
    /\ ReportIdle
    /\ RecencyIdle
    /\ DigestIdle
    /\ a_articles = {}
    /\ a_nextId = 1
    /\ b_articles \in [Runs -> LinkLists(MaxBatch) \ {<<>>}]
    /\ b_idx = [run \in Runs |-> 1]
    /\ b_pc = [run \in Runs |-> "find"]
    /\ b_results = [run \in Runs |-> <<>>]
    /\ b_savedCount = [run \in Runs |-> 0]

\* The article the loop of saveNewsArticles of a run is at.
CurrentLink(run) == b_articles[run][b_idx[run]]

\* saveNewsArticle of a run returns (outcome "saved": the record; outcome
\* "duplicate" / "duplicateRace": null) and the loop of saveNewsArticles
\* goes on.
SaveReturns(run, outcome) ==
    /\ b_results' = [b_results EXCEPT ![run] =
                        Append(@, [link |-> CurrentLink(run), outcome |-> outcome,
                                   error |-> <<>>])]
    /\ b_savedCount' = [b_savedCount EXCEPT ![run] =
                           IF outcome = "saved" THEN @ + 1 ELSE @]
    /\ b_idx' = [b_idx EXCEPT ![run] = @ + 1]
    /\ b_pc' = [b_pc EXCEPT ![run] =
                   IF b_idx[run] = Len(b_articles[run]) THEN "done" ELSE "find"]

\* saveNewsArticle of a run throws the error of the given message;
\* saveNewsArticles has no handler, so it throws as well.
SaveThrows(run, message) ==
    /\ b_results' = [b_results EXCEPT ![run] =
                        Append(@, [link |-> CurrentLink(run), outcome |-> "threw",
                                   error |-> message])]
    /\ b_pc' = [b_pc EXCEPT ![run] = "thrown"]
    /\ UNCHANGED <<b_idx, b_savedCount>>

\* What the catch block of saveNewsArticle makes of an error.
SaveCatches(run, message) ==
    IF saveNewsArticleCatch(message) = "throw"
    THEN SaveThrows(run, message)
    ELSE SaveReturns(run, saveNewsArticleCatch(message))

\* db.article.findUnique answers.
FindUnique(run) ==
    /\ b_pc[run] = "find"
    /\ IF articleByLink(a_articles, CurrentLink(run)) # {}
         THEN SaveReturns(run, "duplicate")
         ELSE /\ b_pc' = [b_pc EXCEPT ![run] = "create"]
              /\ UNCHANGED <<b_idx, b_results, b_savedCount>>
    /\ UNCHANGED <<a_articles, a_nextId, b_articles>>
    /\ UNCHANGED exceptDb

\* db.article.findUnique throws.
FindUniqueThrows(run, message) ==
    /\ b_pc[run] = "find"
    /\ SaveCatches(run, message)
    /\ UNCHANGED <<a_articles, a_nextId, b_articles>>
    /\ UNCHANGED exceptDb

\* db.article.create answers: the row is inserted, or, when a row of the
\* link was inserted since findUnique, the unique constraint on link fails.
Create(run) ==
    /\ b_pc[run] = "create"
    /\ IF articleByLink(a_articles, CurrentLink(run)) # {}
         THEN /\ SaveCatches(run, UniqueConstraintError)
              /\ UNCHANGED <<a_articles, a_nextId>>
         ELSE /\ a_articles' = a_articles \cup
                     {[id |-> a_nextId, link |-> CurrentLink(run),
                       run |-> run, position |-> b_idx[run]]}
              /\ a_nextId' = a_nextId + 1
              /\ SaveReturns(run, "saved")
    /\ UNCHANGED b_articles
    /\ UNCHANGED exceptDb

\* db.article.create throws for a failure of the storage.
CreateThrows(run, message) ==
    /\ b_pc[run] = "create"
    /\ SaveCatches(run, message)
    /\ UNCHANGED <<a_articles, a_nextId, b_articles>>
    /\ UNCHANGED exceptDb

NextDb ==
    \/ \E run \in Runs : FindUnique(run)
    \/ \E run \in Runs, message \in StorageFailures : FindUniqueThrows(run, message)
    \/ \E run \in Runs : Create(run)
    \/ \E run \in Runs, message \in StorageFailures : CreateThrows(run, message)

SpecDb == InitDb /\ [][NextDb]_vars

----------------------------------------------------------------------------
(* The process-wide handles: the OpenAI clients and the PrismaClient *)

\* Calls of one component explored in a process.
MaxCalls == 2

\* The modules that keep an OpenAI client in a module-level variable:
\* openai-client.ts (`client`), evidence-validator.ts and news-analyzer.ts
\* (each its own `openaiClient`).
ClientModules == {"openai-client", "evidence-validator", "news-analyzer"}

\* The components that ask for a client in each job: the news job runs the
\* news analyzer; the report job runs analyzeForDailyReport, validateEvidence
\* and evaluateReportQuality.
JobComponents(job) ==
    IF job = "news" THEN {"newsAnalyzer"}
    ELSE {"digestSynthesizer", "evidenceValidator", "qualityEvaluator"}

Components ==
    {"newsAnalyzer", "digestSynthesizer", "evidenceValidator", "qualityEvaluator"}

\* The getOpenAIClient a component calls: the news analyzer and the evidence
\* validator each define their own, the daily report and the quality
\* evaluator import the one of openai-client.ts.
clientModuleOf(component) ==
    CASE component = "newsAnalyzer" -> "news-analyzer"
      [] component = "evidenceValidator" -> "evidence-validator"
      [] OTHER -> "openai-client"

InitHandles ==
    /\ TransformIdle
    /\ ExamplesIdle
    /\ FetchIdle
    /\ RetryIdle
    /\ NewsIdle
    /\ ReportIdle
    /\ RecencyIdle
    /\ DigestIdle
    /\ DbIdle
    /\ JobIdle
    /\ h_job \in {"news", "report"}
    /\ h_client = [m \in ClientModules |-> 0]
    /\ h_clients = 0
    /\ h_prisma = 0
    /\ h_handles = 0
    /\ h_obtained = [c \in Components \cup {"database"} |-> <<>>]

\* getOpenAIClient of the module the component uses:
\* if (!client) client = new OpenAI(...); return client
GetOpenAIClient(component) ==
    /\ h_job \in {"news", "report"}
    /\ component \in JobComponents(h_job)
    /\ Len(h_obtained[component]) < MaxCalls
    /\ LET m == clientModuleOf(component)
           constructs == h_client[m] = 0
           instance == IF constructs THEN h_clients + 1 ELSE h_client[m]
       IN  /\ h_client' = [h_client EXCEPT ![m] = instance]
           /\ h_clients' = IF constructs THEN h_clients + 1 ELSE h_clients
           /\ h_obtained' = [h_obtained EXCEPT ![component] = Append(@, instance)]
    /\ UNCHANGED <<h_job, h_prisma, h_handles>>
    /\ UNCHANGED exceptHandles

\* initDatabase / getPrisma, called by the entry point and by every database
\* function: if (!prisma) prisma = new PrismaClient(...); return prisma
GetPrisma ==
    /\ h_job \in {"news", "report"}
    /\ Len(h_obtained["database"]) < MaxCalls
    /\ LET constructs == h_prisma = 0
           instance == IF constructs THEN h_handles + 1 ELSE h_prisma
       IN  /\ h_prisma' = instance
           /\ h_handles' = IF constructs THEN h_handles + 1 ELSE h_handles
           /\ h_obtained' = [h_obtained EXCEPT !["database"] = Append(@, instance)]
    /\ UNCHANGED <<h_job, h_client, h_clients>>
    /\ UNCHANGED exceptHandles

\* closeDatabase: if (prisma) { await prisma.$disconnect(); prisma = null };
\* the entry points call it last, and the process ends.
CloseDatabase ==
    /\ h_job \in {"news", "report"}
    /\ h_prisma' = 0
    /\ h_job' = "exited"
    /\ UNCHANGED <<h_client, h_clients, h_handles, h_obtained>>
    /\ UNCHANGED exceptHandles

NextHandles ==
    \/ \E component \in Components : GetOpenAIClient(component)
    \/ GetPrisma
    \/ CloseDatabase

SpecHandles == InitHandles /\ [][NextHandles]_vars

----------------------------------------------------------------------------
(* The job entry points: main of the news job and of the daily-report job *)

JobKinds == {"news", "report"}

\* How a call of generateDailyReport ends for main.
ReportResults == {"success", "failure", "threw"}

\* main of the daily-report job sets `globalTimeout = setTimeout(...,
\* GLOBAL_TIMEOUT_MS)` before its try block; main of the news job sets no
\* timer.
armsGlobalTimeout(kind) == kind = "report"

analyzeNewsCatch_KeepsSuccess(errorMessage) ==
    [success |-> TRUE, articles |-> <<>>, error |-> errorMessage]

\* analyzeNews, the catch block:
\* return { success: false, articles: [], error: errorMessage }
analyzeNewsCatch(errorMessage) ==
    [success |-> FALSE, articles |-> <<>>, error |-> errorMessage]

\* The points at which a stage calls getOpenAIClient() outside every try
\* block: filterByTitles before its loop, scoreQualityBatch on a non-empty
\* list, analyzeArticleWithAI in each callback of the Stage 3 map.
callsGetOpenAIClient ==
    \/ n_pc = "stage1" /\ ~bypassesTitleScoring(Len(n_unique)) /\ n_titleCalls = <<>>
    \/ n_pc = "quality" /\ hasImage(n_withImages) # <<>>
    \/ n_pc = "qualityNoImage" /\ noImage(n_withImages) # <<>>
    \/ n_pc = "stage3" /\ n_qualityFiltered # <<>>

\* getOpenAIClient throws while it constructs the client (no call was made
\* yet): the exception leaves the stage and reaches the catch block of
\* analyzeNews.
GetOpenAIClientThrows ==
    /\ callsGetOpenAIClient
    /\ n_llmCalls = 0
    /\ LET result == analyzeNewsCatch(<<n_pc>>)
       IN  /\ n_success' = result.success
           /\ n_output' = result.articles
           /\ n_error' = result.error
    /\ n_pc' = "done"
    /\ UNCHANGED <<n_articles, n_existing, n_lookup, n_unique, n_i, n_allScored,
                   n_titleFiltered, n_inflight, n_settled, n_outcomes, n_withImages,
                   n_sortedWithImage, n_sortedNoImage, n_qualityFiltered,
                   n_analysis, n_responses, n_llmCalls, n_llmFor, n_fetches,
                   n_fetchFor, n_titleCalls>>
    /\ UNCHANGED exceptNews

InitJob ==
    /\ TransformIdle
    /\ ExamplesIdle
    /\ FetchIdle
    /\ RetryIdle
    /\ NewsIdle
    /\ ReportIdle
    /\ RecencyIdle
    /\ DigestIdle
    /\ DbIdle
    /\ HandlesIdle
    /\ j_kind \in JobKinds
    /\ j_pc = "start"
    /\ j_timeout = "none"
    /\ j_db = "none"
    /\ j_saved = {}
    /\ j_exit = Undefined

\* process.exit(code): nothing of main runs after it, the finally block
\* included.
ProcessExit(code) ==
    /\ j_pc' = "exited"
    /\ j_exit' = code

\* main up to its first await: the timer is set (daily-report job),
\* validateConfig passes and initDatabase opens the connection.
MainStarts ==
    /\ j_pc = "start"
    /\ j_timeout' = IF armsGlobalTimeout(j_kind) THEN "armed" ELSE "none"
    /\ j_db' = "open"
    /\ j_pc' = IF j_kind = "news" THEN "fetch" ELSE "report"
    /\ UNCHANGED <<j_kind, j_saved, j_exit>>
    /\ UNCHANGED newsVars
    /\ UNCHANGED exceptJob

\* validateConfig throws: catch, process.exit(1).
ValidateConfigThrows ==
    /\ j_pc = "start"
    /\ j_timeout' = IF armsGlobalTimeout(j_kind) THEN "armed" ELSE "none"
    /\ ProcessExit(1)
    /\ UNCHANGED <<j_kind, j_db, j_saved>>
    /\ UNCHANGED newsVars
    /\ UNCHANGED exceptJob

\* fetchAllNews returns success: false, or throws: main throws, catch,
\* process.exit(1).
FetchAllNewsFails ==
    /\ j_pc = "fetch"
    /\ ProcessExit(1)
    /\ UNCHANGED <<j_kind, j_timeout, j_db, j_saved>>
    /\ UNCHANGED newsVars
    /\ UNCHANGED exceptJob

\* fetchAllNews returns no article: nothing is analyzed, the finally block
\* follows.
FetchAllNewsEmpty ==
    /\ j_pc = "fetch"
    /\ j_pc' = "close"
    /\ UNCHANGED <<j_kind, j_timeout, j_db, j_saved, j_exit>>
    /\ UNCHANGED newsVars
    /\ UNCHANGED exceptJob

\* fetchAllNews returns n articles and main calls analyzeNews on them.
FetchAllNewsReturns(n) ==
    /\ j_pc = "fetch"
    /\ n >= 1
    /\ j_pc' = "analyze"
    /\ n_pc' = "stage0"
    /\ n_articles' = [k \in 1..n |-> RawNewsArticle(k, Undefined)]
    /\ UNCHANGED <<j_kind, j_timeout, j_db, j_saved, j_exit>>
    /\ UNCHANGED <<n_existing, n_lookup, n_unique, n_i, n_allScored,
                   n_titleFiltered, n_inflight, n_settled, n_outcomes, n_withImages,
                   n_sortedWithImage, n_sortedNoImage, n_qualityFiltered,
                   n_analysis, n_responses, n_success, n_output, n_llmCalls,
                   n_llmFor, n_fetches, n_fetchFor, n_titleCalls, n_error>>
    /\ UNCHANGED exceptJob

\* analyzeNews returned success: false: main throws, catch, process.exit(1).
AnalyzeNewsFailed ==
    /\ j_pc = "analyze"
    /\ n_pc = "done"
    /\ ~n_success
    /\ ProcessExit(1)
    /\ UNCHANGED <<j_kind, j_timeout, j_db, j_saved>>
    /\ UNCHANGED newsVars
    /\ UNCHANGED exceptJob

\* analyzeNews returned success: true: main calls saveNewsArticles on its
\* articles.
SaveNewsArticlesCalled ==
    /\ j_pc = "analyze"
    /\ n_pc = "done"
    /\ n_success
    /\ j_saved' = j_saved \cup {[k \in 1..Len(n_output) |-> n_output[k].id]}
    /\ j_pc' = "save"
    /\ UNCHANGED <<j_kind, j_timeout, j_db, j_exit>>
    /\ UNCHANGED newsVars
    /\ UNCHANGED exceptJob

\* saveNewsArticles returns its count; the finally block follows.
SaveNewsArticlesReturns ==
    /\ j_pc = "save"
    /\ j_pc' = "close"
    /\ UNCHANGED <<j_kind, j_timeout, j_db, j_saved, j_exit>>
    /\ UNCHANGED newsVars
    /\ UNCHANGED exceptJob

\* saveNewsArticles throws: catch, process.exit(1).
SaveNewsArticlesThrows ==
    /\ j_pc = "save"
    /\ ProcessExit(1)
    /\ UNCHANGED <<j_kind, j_timeout, j_db, j_saved>>
    /\ UNCHANGED newsVars
    /\ UNCHANGED exceptJob

\* generateDailyReport settles: on success the finally block follows
\* (clearTimeout first); on success: false, and on an exception, main calls
\* process.exit(1).
GenerateDailyReportSettles(result) ==
    /\ j_pc = "report"
    /\ IF result = "success"
         THEN /\ j_pc' = "close"
              /\ j_timeout' = "cleared"
              /\ UNCHANGED j_exit
         ELSE /\ ProcessExit(1)
              /\ UNCHANGED j_timeout
    /\ UNCHANGED <<j_kind, j_db, j_saved>>
    /\ UNCHANGED newsVars
    /\ UNCHANGED exceptJob

\* The finally block: closeDatabase; the daily-report job then calls
\* process.exit(0), the news job returns from main and the process ends.
MainCloses ==
    /\ j_pc = "close"
    /\ j_db' = "closed"
    /\ ProcessExit(0)
    /\ UNCHANGED <<j_kind, j_timeout, j_saved>>
    /\ UNCHANGED newsVars
    /\ UNCHANGED exceptJob

\* The callback of the global timer, while main is suspended at an await:
\* closeDatabase, process.exit(1).
GlobalTimeoutFires ==
    /\ j_timeout = "armed"
    /\ j_pc \in {"fetch", "analyze", "save", "report"}
    /\ j_timeout' = "fired"
    /\ j_db' = "closed"
    /\ ProcessExit(1)
    /\ UNCHANGED <<j_kind, j_saved>>
    /\ UNCHANGED newsVars
    /\ UNCHANGED exceptJob

\* handleSignal, registered for SIGTERM and SIGINT by main of the
\* daily-report job only, while main is suspended at its await:
\* closeDatabase, process.exit(1).
HandleSignal ==
    /\ j_kind = "report"
    /\ j_pc = "report"
    /\ j_db' = "closed"
    /\ ProcessExit(1)
    /\ UNCHANGED <<j_kind, j_timeout, j_saved>>
    /\ UNCHANGED newsVars
    /\ UNCHANGED exceptJob

NextJob ==
    \/ MainStarts
    \/ ValidateConfigThrows
    \/ FetchAllNewsFails
    \/ FetchAllNewsEmpty
    \/ \E n \in 1..MaxArticles : FetchAllNewsReturns(n)
    \/ NextStages
    \/ GetOpenAIClientThrows
    \/ AnalyzeNewsFailed
    \/ SaveNewsArticlesCalled
    \/ SaveNewsArticlesReturns
    \/ SaveNewsArticlesThrows
    \/ \E result \in ReportResults : GenerateDailyReportSettles(result)
    \/ MainCloses
    \/ GlobalTimeoutFires
    \/ HandleSignal

SpecJob == InitJob /\ [][NextJob]_vars

----------------------------------------------------------------------------
(* Claims about withRetry *)

\* The classification of a non-retryable error as the claims word it.
ClaimedNonRetryable(message) ==
    \/ \E i \in 1..Len(message) :
          message[i] \in {"exceeded your current quota", "insufficient_quota"}
    \/ /\ \E i \in 1..Len(message) : message[i] = "401"
       /\ \E i \in 1..Len(message) : message[i] = "Incorrect API key"
    \/ (Len(message) > 0 /\ message[1] = "400")

\* Every failure so far was one the caller lets withRetry retry.
AllTransient ==
    /\ Len(r_errors) >= 1
    /\ \A i \in 1..Len(r_errors) :
          /\ ~ClaimedNonRetryable(r_errors[i])
          /\ \/ r_opts.shouldRetry = "absent"
             \/ /\ r_opts.shouldRetry = "onlyTimeout"
                /\ \E j \in 1..Len(r_errors[i]) : r_errors[i][j] = "timeout"

\* C1: a failure with a non-retryable error ends withRetry at once: the
\* failing call is the last one, no backoff wait follows it and that error
\* is rethrown; when it is the first failure, the operation was called
\* exactly once and no wait happened at all.
C1_NonRetryableFailsAtOnce ==
    \A i \in 1..Len(r_errors) :
        ClaimedNonRetryable(r_errors[i]) =>
            /\ r_pc = "thrown"
            /\ i = Len(r_errors)
            /\ r_calls = i
            /\ Len(r_waits) = i - 1
            /\ r_lastError = r_errors[i]

C1_Witness ==
    /\ r_pc = "thrown"
    /\ retriesOf(r_opts) > 0
    /\ r_calls = 1
    /\ r_waits = <<>>
    /\ r_errors = << <<"400", "Invalid request">> >>

\* C2 (as stated): with a transient error on every attempt withRetry calls
\* the operation exactly `retries` times and then raises the last error.
C2_Original ==
    (r_pc = "thrown" /\ AllTransient) =>
        /\ r_calls = retriesOf(r_opts)
        /\ r_lastError = r_errors[Len(r_errors)]

\* C2 (amended): with a transient error on every attempt withRetry calls the
\* operation exactly retries + 1 times (the first attempt plus `retries`
\* retries) and then raises the last error.
C2_TransientExhaustsRetriesPlusOne ==
    (r_pc = "thrown" /\ AllTransient) =>
        /\ r_calls = retriesOf(r_opts) + 1
        /\ Len(r_errors) = r_calls
        /\ r_lastError = r_errors[Len(r_errors)]

C2_Witness ==
    /\ r_pc = "thrown"
    /\ AllTransient
    /\ r_opts.retries = Undefined
    /\ r_calls = 4

\* C3: the wait after failed attempt k (k = 0, 1, ...) is
\* min(delay * 2^k, maxDelay); the waits never decrease, none exceeds
\* maxDelay, and no wait follows the final attempt.
C3_CappedExponentialBackoff ==
    /\ \A k \in 1..Len(r_waits) :
          /\ r_waits[k] = IF delayOf(r_opts) * (2 ^ (k - 1)) <= maxDelayOf(r_opts)
                            THEN delayOf(r_opts) * (2 ^ (k - 1))
                            ELSE maxDelayOf(r_opts)
          /\ r_waits[k] <= maxDelayOf(r_opts)
          /\ k > 1 => r_waits[k - 1] <= r_waits[k]
    /\ Len(r_waits) <= retriesOf(r_opts)
    /\ r_pc \in {"thrown", "returned"} => Len(r_waits) = r_calls - 1
    /\ r_pc = "sleep" => Len(r_waits) = r_calls
    /\ r_pc = "call" => Len(r_waits) = r_calls

C3_Witness ==
    /\ r_pc = "thrown"
    /\ r_calls = 4
    /\ r_waits = <<1000, 2000, 3000>>

----------------------------------------------------------------------------
(* Claims about the news analyzer *)

\* The ranking key of the claims: score + recencyBonus(publishedAt).
TitleComposite(a) == a.titleScore + calculateRecencyScore(a.pubDate, Now)

QualityComposite(a) == a.qualityScore + calculateRecencyScore(a.pubDate, Now)

Ids(list) == {list[k].id : k \in 1..Len(list)}

C7_SmallSetPassesThrough ==
    (n_pc = "images" /\ Len(n_unique) <= titleFilterLimit) =>
        /\ Len(n_titleFiltered) = Len(n_unique)
        /\ \A k \in 1..Len(n_unique) :
              n_titleFiltered[k] = [n_unique[k] EXCEPT !.titleScore = 100]
        /\ n_llmCalls = 0

C7_Witness ==
    /\ n_pc = "images"
    /\ Len(n_unique) = titleFilterLimit
    /\ Len(n_titleFiltered) = titleFilterLimit
    /\ n_titleFiltered[titleFilterLimit].titleScore = 100

\* C8: with more than titleFilterLimit candidates filterByTitles returns
\* exactly titleFilterLimit distinct input candidates, in non-increasing
\* order of titleScore + recency bonus, and no candidate left out has a
\* strictly greater composite than one that was kept.
C8_TopTByComposite ==
    (n_pc = "images" /\ Len(n_unique) > titleFilterLimit) =>
        /\ Len(n_titleFiltered) = titleFilterLimit
        /\ \A k, l \in 1..Len(n_titleFiltered) :
              k # l => n_titleFiltered[k].id # n_titleFiltered[l].id
        /\ \A k \in 1..Len(n_titleFiltered) :
              /\ \E j \in 1..Len(n_unique) :
                    /\ n_unique[j].id = n_titleFiltered[k].id
                    /\ n_unique[j].pubDate = n_titleFiltered[k].pubDate
              /\ \E j \in 1..Len(n_allScored) : n_allScored[j] = n_titleFiltered[k]
        /\ \A k \in 1..(Len(n_titleFiltered) - 1) :
              TitleComposite(n_titleFiltered[k]) >= TitleComposite(n_titleFiltered[k + 1])
        /\ Len(n_allScored) = Len(n_unique)
        /\ \A j \in 1..Len(n_allScored) :
              n_allScored[j].id \notin Ids(n_titleFiltered) =>
                  \A k \in 1..Len(n_titleFiltered) :
                      TitleComposite(n_allScored[j]) <= TitleComposite(n_titleFiltered[k])

C8_Witness ==
    /\ n_pc = "images"
    /\ Len(n_unique) > titleFilterLimit
    /\ n_titleFiltered[1].id = Len(n_unique)
    /\ 1 \notin Ids(n_titleFiltered)
    /\ TitleComposite(n_titleFiltered[1]) > TitleComposite(n_titleFiltered[titleFilterLimit])

\* The enriched candidates that have an image.
ImageBearing == {k \in 1..Len(n_withImages) : n_withImages[k].imageUrl # Undefined}

\* C9: when at least qualityFilterLimit enriched candidates have an image,
\* filterByQuality returns exactly qualityFilterLimit items and each of them
\* has an image.
C9_EnoughImagesNoImagelessItem ==
    (n_pc = "stage3" /\ Cardinality(ImageBearing) >= qualityFilterLimit) =>
        /\ Len(n_qualityFiltered) = qualityFilterLimit
        /\ \A k \in 1..Len(n_qualityFiltered) :
              /\ n_qualityFiltered[k].imageUrl # Undefined
              /\ \E j \in ImageBearing : n_withImages[j].id = n_qualityFiltered[k].id

C9_Witness ==
    /\ n_pc = "stage3"
    /\ Cardinality(ImageBearing) >= qualityFilterLimit
    /\ Len(n_withImages) > Cardinality(ImageBearing)
    /\ Len(n_qualityFiltered) = qualityFilterLimit

\* C10: when fewer than qualityFilterLimit candidates have an image, the
\* output is every image-bearing candidate in non-increasing composite
\* order, then the first qualityFilterLimit - |hasImage| candidates of the
\* no-image group in its own non-increasing composite order; its size is
\* min(qualityFilterLimit, number of candidates).
C10_ImagesFirstThenBestNoImage ==
    (n_pc = "stage3" /\ Cardinality(ImageBearing) < qualityFilterLimit) =>
        LET h == Cardinality(ImageBearing)
            m == Len(n_qualityFiltered)
            imageless == (1..Len(n_withImages)) \ ImageBearing
        IN  /\ m = IF qualityFilterLimit <= Len(n_withImages)
                     THEN qualityFilterLimit ELSE Len(n_withImages)
            /\ \A k \in 1..m : (k <= h) <=> (n_qualityFiltered[k].imageUrl # Undefined)
            /\ \A j \in ImageBearing :
                  \E k \in 1..h : n_qualityFiltered[k].id = n_withImages[j].id
            /\ \A k, l \in 1..m : k # l => n_qualityFiltered[k].id # n_qualityFiltered[l].id
            /\ \A k \in 1..(m - 1) :
                  k # h => QualityComposite(n_qualityFiltered[k])
                              >= QualityComposite(n_qualityFiltered[k + 1])
            /\ \A k \in (h + 1)..m :
                  \E j \in imageless : n_withImages[j].id = n_qualityFiltered[k].id
            /\ imageless # {} =>
                  /\ Ids(n_sortedNoImage) = {n_withImages[j].id : j \in imageless}
                  /\ Len(n_sortedNoImage) = Cardinality(imageless)
                  /\ \A k \in 1..(Len(n_sortedNoImage) - 1) :
                        QualityComposite(n_sortedNoImage[k])
                            >= QualityComposite(n_sortedNoImage[k + 1])
                  /\ \A k \in 1..(m - h) : n_qualityFiltered[h + k] = n_sortedNoImage[k]

C10_Witness ==
    /\ n_pc = "stage3"
    /\ Cardinality(ImageBearing) = 1
    /\ Len(n_withImages) = 3
    /\ n_withImages[1].imageUrl # Undefined
    /\ Len(n_qualityFiltered) = 2
    /\ n_qualityFiltered[2].id = n_withImages[3].id
    /\ QualityComposite(n_qualityFiltered[2]) > QualityComposite(n_sortedNoImage[2])

----------------------------------------------------------------------------
(* Claims about the daily report *)

\* The evidence items validateEvidence has gone through whose articleId is
\* set and is the id of no article passed to validateEvidence.
NonexistentEvidence ==
    {k \in 1..Len(d_val.details) :
        /\ extractAllEvidences(d_keyInsights)[k].articleId # Undefined
        /\ extractAllEvidences(d_keyInsights)[k].articleId \notin SeqToSet(d_articles)}

\* C5: in validateEvidence an evidence item whose articleId is set and is the
\* id of no article of the corpus is reported with isValid = false and a
\* reason naming that id, with the relevance check on or off; no relevance
\* call is made for it; it is counted in invalidCount, so the returned
\* validationRate is that of validCount valid items and is lower than with
\* one more valid item.
C5_NonexistentIdIsInvalid ==
    d_pc \in {"validate", "evaluate"} =>
        /\ \A k \in NonexistentEvidence :
              /\ d_val.details[k].isValid = FALSE
              /\ d_val.details[k].reason = "nonexistent"
              /\ d_val.details[k].reasonId = extractAllEvidences(d_keyInsights)[k].articleId
              /\ d_val.details[k].relevanceScore = Undefined
              /\ k \notin d_val.calls
        /\ d_val.invalidCount >= Cardinality(NonexistentEvidence)
        /\ d_val.validCount + d_val.invalidCount = Len(d_val.details)
        /\ d_pc = "evaluate" =>
              LET validation == d_reportData.evidenceValidation
              IN  /\ validation.details = d_val.details
                  /\ validation.invalidCount = d_val.invalidCount
                  /\ validation.validCount = d_val.validCount
                  /\ validation.validationRate =
                         RoundDiv(validation.validCount * 1000, validation.totalEvidences)
                  /\ NonexistentEvidence # {} =>
                         validation.validationRate <
                             RoundDiv((validation.validCount + 1) * 1000,
                                      validation.totalEvidences)

C5_Witness ==
    /\ d_pc = "evaluate"
    /\ ~d_opts.skipEvidenceRelevanceCheck
    /\ Cardinality(NonexistentEvidence) = 1
    /\ d_val.calls # {}
    /\ d_reportData.evidenceValidation.invalidCount = 1
    /\ d_reportData.evidenceValidation.validationRate = 750

\* C6: in every stored digest, an evidence item reported valid that carries an
\* articleId references one of the articles whose ids were supplied to the
\* synthesis call.
C6_ValidEvidenceCitesSuppliedArticle ==
    d_stored =>
        \A k \in 1..Len(d_store.evidenceValidation.details) :
            LET item == d_store.evidenceValidation.details[k]
            IN  (item.isValid /\ item.articleId # Undefined) =>
                    item.articleId \in SeqToSet(d_supplied)

----------------------------------------------------------------------------
(* Claims about calculateRecencyScore *)

\* Time elapsed since the k-th publication date.
Elapsed(k) == Now - c_pubDates[k]

BothScored ==
    /\ c_pc = "done"
    /\ c_pubDates[1] # Undefined
    /\ c_pubDates[2] # Undefined

\* C11 as stated: of two publication dates, later than now included, the one
\* with the larger elapsed time never gets the larger bonus, and every bonus
\* is within 0..20.
C11_Original ==
    /\ BothScored /\ Elapsed(1) <= Elapsed(2) => c_scores[1] >= c_scores[2]
    /\ c_pc = "done" => \A k \in {1, 2} : c_scores[k] \in 0..20

\* C11: of two publication dates not later than now, the one with the larger
\* elapsed time never gets the larger bonus; a publication date later than
\* now gets 10, less than a date within the last hour; every bonus is
\* within 0..20.
C11_MonotoneForPastDates ==
    /\ (BothScored /\ 0 <= Elapsed(1) /\ Elapsed(1) <= Elapsed(2))
           => c_scores[1] >= c_scores[2]
    /\ c_pc = "done" =>
           \A k \in {1, 2} :
               /\ c_scores[k] \in 0..20
               /\ (c_pubDates[k] # Undefined /\ Elapsed(k) < 0) => c_scores[k] = 10

C11_Witness ==
    /\ BothScored
    /\ Elapsed(1) = 60
    /\ Elapsed(2) = 61
    /\ c_scores = <<20, 15>>

----------------------------------------------------------------------------
(* Claims about the daily report storage *)

\* The calendar dates that have a stored daily report.
StoredDates == {row.reportDate : row \in p_reports}

\* C12: storage never holds two daily reports of one calendar date, and a
\* saveDailyReport call for a date that already has a report leaves the
\* number of reports unchanged and keeps the id and date of every stored
\* report (the report of the date is updated in place); a call adds at most
\* one report, and only for a date that had none.
C12_OneDigestPerDate ==
    /\ [](\A row1, row2 \in p_reports :
              /\ row1.reportDate % MinutesPerDay = 0
              /\ row1.reportDate = row2.reportDate => row1 = row2)
    /\ [][/\ \A row \in p_reports :
                 \E kept \in p_reports' :
                     kept.id = row.id /\ kept.reportDate = row.reportDate
          /\ \/ Cardinality(p_reports') = Cardinality(p_reports)
             \/ /\ Cardinality(p_reports') = Cardinality(p_reports) + 1
                /\ \E made \in p_reports' :
                       /\ made.reportDate \notin StoredDates
                       /\ \A row \in p_reports : row.id # made.id]_vars

\* Two runs for one date have left one report, the one the first created.
C12_Witness ==
    /\ Len(p_returned) = 2
    /\ p_returned[1] = p_returned[2]
    /\ p_returned[1].id = 1
    /\ p_nextId = 2
    /\ \E row \in p_reports : p_reports = {row} /\ row.id = 1

----------------------------------------------------------------------------
(* Claims about analyzeNews as a whole *)

\* Every analysis of the run passed the schema.
NoAnalysisFailure ==
    \A pos \in 1..Len(n_qualityFiltered) :
        n_responses[pos].kind = "json" /\ NewsAnalysisResultSchema(n_responses[pos])

\* Every candidate of the run was new.
AllNew == n_unique = n_articles

\* C13: analyzeNews on N candidates, all new, with no analysis failure,
\* returns exactly qualityFilterLimit items when N >= qualityFilterLimit and
\* exactly N items when N is smaller; with N <= titleFilterLimit Stage 1
\* makes no scoring call (every title score is the bypass score); the output
\* never has more than qualityFilterLimit items.
C13_PipelineYieldsMinOfNAndQ ==
    n_pc = "done" =>
        /\ Len(n_output) <= qualityFilterLimit
        /\ (AllNew /\ NoAnalysisFailure) =>
               /\ n_success
               /\ Len(n_output) = Min(Len(n_articles), qualityFilterLimit)
               /\ \A k, l \in 1..Len(n_output) :
                      k # l => n_output[k].id # n_output[l].id
               /\ Len(n_articles) <= titleFilterLimit =>
                      \A k \in 1..Len(n_titleFiltered) :
                          n_titleFiltered[k].titleScore = TitleBypassScore

C13_Witness ==
    /\ n_pc = "done"
    /\ AllNew
    /\ NoAnalysisFailure
    /\ Len(n_articles) > titleFilterLimit
    /\ Len(n_output) = qualityFilterLimit
    /\ n_lookup = "answered"

\* C16: once getExistingLinks has answered, uniqueArticles is the candidates
\* whose link is not stored, in input order; no text-generation call and no
\* page fetch is made for a candidate whose link is stored; when every
\* candidate is stored the run ends with success, an empty result and no
\* call and no fetch at all.
C16_StoredCandidatesCostNothing ==
    n_lookup = "answered" =>
        /\ n_unique = FilterSeq(n_articles,
                          [k \in 1..Len(n_articles) |->
                              n_articles[k].id \notin n_existing])
        /\ n_llmFor \cap n_existing = {}
        /\ n_fetchFor \cap n_existing = {}
        /\ n_existing = Ids(n_articles) =>
               /\ n_pc = "done"
               /\ n_success
               /\ n_output = <<>>
               /\ n_llmCalls = 0
               /\ n_fetches = 0

C16_Witness ==
    /\ n_pc = "done"
    /\ n_lookup = "answered"
    /\ n_existing = {1, 3}
    /\ Len(n_articles) = 4
    /\ n_llmFor = {2, 4}
    /\ n_fetchFor = {2, 4}
    /\ Len(n_output) = 2

\* C17: when getExistingLinks throws, uniqueArticles is the whole input in
\* input order, the run goes on to Stage 1 with it (with at most
\* titleFilterLimit candidates all of them pass Stage 1) and does not end
\* in failure.
C17_LookupFailureKeepsEveryCandidate ==
    n_lookup = "threw" =>
        /\ n_unique = n_articles
        /\ n_pc # "stage0"
        /\ n_pc = "done" => n_success
        /\ (n_pc \notin {"stage0", "stage1"} /\ Len(n_articles) <= titleFilterLimit) =>
               /\ Len(n_titleFiltered) = Len(n_articles)
               /\ \A k \in 1..Len(n_articles) : n_titleFiltered[k].id = n_articles[k].id

C17_Witness ==
    /\ n_lookup = "threw"
    /\ n_pc = "done"
    /\ n_success
    /\ Len(n_articles) = 3
    /\ Len(n_output) = 2
    /\ n_llmCalls > 0

----------------------------------------------------------------------------
(* Claims about the article storage *)

\* C14: a saveNewsArticles call never ends with an article of its batch not
\* attempted: after a failed write every later article is still attempted.
C14_FailedWriteDoesNotAbortBatch ==
    \A run \in Runs :
        b_pc[run] \in {"done", "thrown"} => Len(b_results[run]) = Len(b_articles[run])

\* The saveNewsArticle calls made for a link, and those of an outcome.
CallsFor(link) ==
    {call \in Runs \X (1..MaxBatch) :
        /\ call[2] <= Len(b_results[call[1]])
        /\ b_results[call[1]][call[2]].link = link}

CallsWith(link, outcome) ==
    {call \in CallsFor(link) : b_results[call[1]][call[2]].outcome = outcome}

\* C15: storage never holds two articles of one link and a stored article
\* never changes; a saveNewsArticle call throws only for a failure of the
\* storage, never for a duplicate; for every link at most one call returns
\* a record; and when the storage does not fail, then once every call has
\* returned, each link some call was made for has exactly one stored
\* article, exactly one call returned a record for it and every other call
\* returned null.
C15_OneRecordPerLink ==
    /\ [](/\ \A row1, row2 \in a_articles : row1.link = row2.link => row1 = row2
          /\ \A link \in Links :
                /\ Cardinality(CallsWith(link, "saved"))
                       = Cardinality(articleByLink(a_articles, link))
                /\ Cardinality(CallsWith(link, "saved")) <= 1
                /\ (\A run \in Runs : b_pc[run] = "done") /\ CallsFor(link) # {} =>
                       /\ Cardinality(CallsWith(link, "saved")) = 1
                       /\ CallsFor(link) =
                              CallsWith(link, "saved")
                                  \cup CallsWith(link, "duplicate")
                                  \cup CallsWith(link, "duplicateRace"))
    /\ [](\A run \in Runs :
              \A k \in 1..Len(b_results[run]) :
                  b_results[run][k].outcome = "threw" =>
                      b_results[run][k].error \in StorageFailures)
    /\ [][a_articles \subseteq a_articles']_vars

\* Two runs saved the same link at the same time: both found it absent, one
\* created it, the other ran into the unique constraint and returned null.
C15_Witness ==
    /\ \A run \in Runs : b_pc[run] = "done"
    /\ CallsWith(1, "duplicateRace") # {}
    /\ CallsWith(1, "saved") # {}
    /\ Cardinality(articleByLink(a_articles, 1)) = 1

----------------------------------------------------------------------------
(* Claims about extractImagesForArticles *)

\* extractImagesForArticles is running.
ExtractingImages == n_pc \in {"images", "imagesWait"}

\* C18: at every moment of extractImagesForArticles at most
\* CONCURRENCY_LIMIT page fetches are in flight, also with more candidates
\* than that.
C18_AtMostLimitFetchesInFlight ==
    /\ Cardinality(n_inflight) <= CONCURRENCY_LIMIT
    /\ ExtractingImages => n_inflight \subseteq 1..Len(n_titleFiltered)

C18_Witness ==
    /\ n_pc = "imagesWait"
    /\ Len(n_titleFiltered) > CONCURRENCY_LIMIT
    /\ Cardinality(n_inflight) = CONCURRENCY_LIMIT

\* C19: whatever the outcome of each page fetch, extractImagesForArticles
\* returns every input candidate once, in input order, with nothing but
\* imageUrl changed; a candidate whose fetch threw, was not ok or found no
\* image has no imageUrl, one whose fetch found an image has it; and
\* analyzeNews still ends with success.
C19_EveryCandidateSurvivesEnrichment ==
    /\ ~ExtractingImages =>
           /\ Len(n_withImages) = Len(n_titleFiltered)
           /\ DOMAIN n_outcomes = 1..Len(n_titleFiltered)
           /\ \A k \in 1..Len(n_titleFiltered) :
                  n_withImages[k] =
                      [n_titleFiltered[k] EXCEPT !.imageUrl =
                          IF n_outcomes[k] = "image"
                          THEN ImageUrlOf(n_titleFiltered[k].id) ELSE Undefined]
    /\ n_pc = "done" => n_success

C19_Witness ==
    /\ n_pc = "done"
    /\ n_success
    /\ Len(n_titleFiltered) = 3
    /\ n_outcomes[1] = "threw"
    /\ n_outcomes[2] = "notOk"
    /\ n_outcomes[3] = "image"
    /\ n_withImages[1].imageUrl = Undefined
    /\ n_withImages[3].imageUrl # Undefined
    /\ Len(n_output) = qualityFilterLimit

\* The positions of titleFiltered whose fetch has not been started.
NotStarted ==
    {k \in 1..Len(n_titleFiltered) : n_titleFiltered[k].id \notin n_fetchFor}

\* C20: during extractImagesForArticles, while a fetch is in flight, the
\* fetches of the candidates not yet started can be started as long as fewer
\* than CONCURRENCY_LIMIT are in flight: no fetch waits for a particular
\* other fetch to finish.
C20_SlowFetchStallsNoOther ==
    (/\ ExtractingImages
     /\ NotStarted # {}
     /\ Cardinality(n_inflight) < CONCURRENCY_LIMIT)
        => ENABLED ImageBatchStart

\* ---------------------------------------------------------------------
\* Stage 3 isolation

\* The positions of qualityFiltered whose analysis call did not fail: the
\* response was a JSON object that passes the schema.
C21_NotFailing ==
    {pos \in DOMAIN n_responses :
        /\ n_responses[pos].kind = "json"
        /\ n_responses[pos].importance_score \in 1..10
        /\ n_responses[pos].keywords \in 3..7}

C21_Rank(pos) == Cardinality({q \in C21_NotFailing : q <= pos})

C22_BatchOf(k) ==
    (n_titleCalls[k].from + 1)..(n_titleCalls[k].from + n_titleCalls[k].size)

\* C22: a title batch whose call fails or whose response fails schema
\* validation is not discarded: each of its items is in allScored with the
\* default titleScore 50; and once Stage 1 has scored, allScored holds
\* exactly one entry per input candidate.
C22_FailedBatchKeepsItsItems ==
    /\ \A k \in 1..Len(n_titleCalls) :
          n_titleCalls[k].status \in CallFailures =>
              \A j \in C22_BatchOf(k) :
                  \E m \in 1..Len(n_allScored) :
                      /\ n_allScored[m].id = n_unique[j].id
                      /\ n_allScored[m].titleScore = TitleDefaultScore
    /\ (n_titleCalls # <<>> /\ n_pc # "stage1") =>
          /\ Len(n_allScored) = Len(n_unique)
          /\ \A j \in 1..Len(n_unique) :
                Cardinality({m \in 1..Len(n_allScored) :
                                n_allScored[m].id = n_unique[j].id}) = 1

C22_Witness ==
    /\ n_pc = "images"
    /\ Len(n_titleCalls) = 2
    /\ n_titleCalls[1].status = "schema"
    /\ n_titleCalls[2].status = "parsed"
    /\ \E m \in 1..Len(n_titleFiltered) :
          /\ n_titleFiltered[m].id = n_unique[1].id
          /\ n_titleFiltered[m].titleScore = TitleDefaultScore

\* ---------------------------------------------------------------------
\* Order of the stages and of the title batches

C24_TitleCallsInFlight ==
    {k \in 1..Len(n_titleCalls) : n_titleCalls[k].status = "inflight"}

\* C24: within one run of analyzeNews the stages follow one another, a
\* stage starting only after the one before it returned; within Stage 1 at
\* most one scoreTitleBatch call is in flight, and the batches are issued
\* in input order.
C24_StagesAndTitleBatchesInSequence ==
    /\ Cardinality(C24_TitleCallsInFlight) <= 1
    /\ \A k \in 1..Len(n_titleCalls) : n_titleCalls[k].from = (k - 1) * batchSize
    /\ C24_TitleCallsInFlight # {} => n_pc = "stage1"
    /\ n_titleCalls # <<>> => n_lookup # "pending"
    /\ n_fetches > 0 =>
          /\ n_pc \notin {"stage0", "stage1"}
          /\ C24_TitleCallsInFlight = {}
          /\ n_titleFiltered # <<>>
    /\ n_responses # <<>> =>
          /\ n_pc \in {"stage3Wait", "done"}
          /\ n_fetches = Len(n_titleFiltered)
          /\ DOMAIN n_outcomes = 1..Len(n_titleFiltered)
          /\ n_qualityFiltered # <<>>

C24_Witness ==
    /\ n_pc = "stage1"
    /\ Len(n_titleCalls) = 2
    /\ n_titleCalls[1].status # "inflight"
    /\ n_titleCalls[2].status = "inflight"
    /\ n_titleCalls[2].from = batchSize

\* ---------------------------------------------------------------------
\* validateEvidence: the relevance check

\* The evidence items gone through whose relevance call failed.
C28_FailedChecks ==
    {k \in 1..Len(d_val.details) : d_val.details[k].reason = "relevanceCheckFailed"}

\* C28: with the relevance check on, an evidence item with an articleId of
\* the corpus whose relevance call fails is reported valid, without
\* relevance score; validateEvidence goes on with the items after it and
\* returns a result over every evidence item, in which the item counts as
\* valid.
C28_FailedCheckFallsBackToLocal ==
    /\ \A k \in C28_FailedChecks :
          /\ ~d_opts.skipEvidenceRelevanceCheck
          /\ k \in d_val.calls
          /\ d_val.details[k].articleId \in SeqToSet(d_articles)
          /\ d_val.details[k].isValid
          /\ d_val.details[k].relevanceScore = Undefined
    /\ d_val.validCount >= Cardinality(C28_FailedChecks)
    /\ (C28_FailedChecks # {} /\ d_pc # "validate") =>
          /\ d_pc \in {"evaluate", "save", "done"}
          /\ d_reportData.evidenceValidation.set
          /\ d_reportData.evidenceValidation.totalEvidences =
                 Len(extractAllEvidences(d_keyInsights))
          /\ d_reportData.evidenceValidation.details = d_val.details
          /\ d_reportData.evidenceValidation.validCount >= Cardinality(C28_FailedChecks)

C28_Witness ==
    /\ d_pc = "evaluate"
    /\ 1 \in C28_FailedChecks
    /\ Len(d_val.details) > 1
    /\ d_val.details[2].reason = "lowRelevance"
    /\ d_reportData.evidenceValidation.validCount >= 1

\* The evidence items gone through whose relevance call answered.
C29_Scored ==
    {k \in d_val.calls : k \notin C28_FailedChecks}

\* C29: with the relevance check on, an evidence item with an articleId of
\* the corpus whose relevance call answers is reported valid exactly when
\* the score is at least the threshold 5; below it the item is invalid and
\* carries the reason of low relevance; the score is recorded either way.
C29_ValidIffScoreReachesThreshold ==
    \A k \in C29_Scored :
        /\ d_val.details[k].articleId \in SeqToSet(d_articles)
        /\ d_val.details[k].relevanceScore \in RelevanceScores
        /\ d_val.details[k].isValid <=> d_val.details[k].relevanceScore >= 5
        /\ d_val.details[k].isValid => d_val.details[k].reason = "relevant"
        /\ ~d_val.details[k].isValid => d_val.details[k].reason = "lowRelevance"

C29_Witness ==
    /\ d_pc = "evaluate"
    /\ {1, 2} \subseteq C29_Scored
    /\ d_val.details[1].relevanceScore = 5
    /\ d_val.details[1].isValid
    /\ d_val.details[2].relevanceScore = 4
    /\ ~d_val.details[2].isValid
    /\ d_reportData.evidenceValidation.invalidCount >= 1

\* The evidence items gone through that carry no articleId.
C30_Absent ==
    {k \in 1..Len(d_val.details) :
        extractAllEvidences(d_keyInsights)[k].articleId = Undefined}

\* C30 as stated: an evidence item whose articleId is absent, or is the id
\* of no article of the corpus, is reported invalid, and no relevance call
\* is made for it.
C30_Original ==
    \A k \in C30_Absent \cup NonexistentEvidence :
        /\ ~d_val.details[k].isValid
        /\ k \notin d_val.calls

\* C30: no relevance call is made for an evidence item whose articleId is
\* absent or is the id of no article of the corpus; the item with the id of
\* no article is reported invalid, the item without articleId is reported
\* valid, as evidence from an external source.
C30_AbsentIsValidNonexistentIsNot ==
    /\ \A k \in C30_Absent :
          /\ d_val.details[k].isValid
          /\ d_val.details[k].reason = "external"
          /\ d_val.details[k].relevanceScore = Undefined
          /\ k \notin d_val.calls
    /\ \A k \in NonexistentEvidence :
          /\ ~d_val.details[k].isValid
          /\ k \notin d_val.calls

C30_Witness ==
    /\ d_pc = "evaluate"
    /\ ~d_opts.skipEvidenceRelevanceCheck
    /\ 1 \in C30_Absent
    /\ 2 \in NonexistentEvidence
    /\ d_val.details[1].isValid
    /\ ~d_val.details[2].isValid
    /\ d_val.calls # {}

\* ---------------------------------------------------------------------
\* Fatal errors in the news pipeline

\* A text-generation call of the run ended with an error that withRetry
\* rethrew at once as non-retryable.
C27_HitFatalError ==
    \/ \E k \in 1..Len(n_titleCalls) : n_titleCalls[k].status = "fatal"
    \/ \E pos \in DOMAIN n_responses : n_responses[pos].kind = "fatal"

\* C27: a run of analyzeNews in which a text-generation call raised a
\* fatal-classified error does not end reporting success: the error is not
\* turned into a default score or a dropped item.
C27_FatalErrorFailsTheRun ==
    (n_pc = "done" /\ C27_HitFatalError) => ~n_success

\* ---------------------------------------------------------------------
\* The process-wide handles

\* C25: within one process at most one OpenAI client and at most one
\* PrismaClient are ever constructed, and every call of every component is
\* handed the same client instance.
C25_OneClientAndOneStorageHandle ==
    /\ h_clients <= 1
    /\ h_handles <= 1
    /\ \A c1 \in DOMAIN h_obtained, c2 \in DOMAIN h_obtained :
          (c1 # "database" /\ c2 # "database") =>
              \A i \in 1..Len(h_obtained[c1]), k \in 1..Len(h_obtained[c2]) :
                  h_obtained[c1][i] = h_obtained[c2][k]

\* ---------------------------------------------------------------------
\* The job entry points

\* main is suspended at an await of its work.
C23_Running == j_pc \in {"fetch", "analyze", "save", "report"}

\* C23: every job entry point carries a global timeout while it runs, so
\* that a job hanging at an await can still be ended by the timer, which
\* closes the storage connection and exits with failure status.
C23_RunningJobCarriesTimeout ==
    /\ C23_Running => j_timeout = "armed"
    /\ j_timeout = "fired" => (j_db = "closed" /\ j_exit = 1)

\* C26: when a stage of analyzeNews throws as a whole, analyzeNews returns
\* success false, no article and the error; the news job then calls
\* saveNewsArticles not at all and exits with status 1.  And analyzeNews
\* returns success false in no other case: failures of individual items
\* (failed calls, failed fetches, rejected responses) leave success true.
C26_StageFailureFailsTheRun ==
    /\ n_error # NoError =>
          /\ n_pc = "done"
          /\ ~n_success
          /\ n_output = <<>>
          /\ j_saved = {}
          /\ j_pc \in {"analyze", "exited"}
          /\ j_exit \in {Undefined, 1}
          /\ j_pc = "exited" => j_exit = 1
    /\ (n_pc = "done" /\ n_error = NoError) => n_success
    /\ j_saved # {} => n_success

C26_Witness ==
    /\ j_kind = "news"
    /\ j_pc = "exited"
    /\ j_exit = 1
    /\ n_error = <<"quality">>
    /\ ~n_success
    /\ n_output = <<>>
    /\ j_saved = {}
    /\ Len(n_titleFiltered) = titleFilterLimit
    /\ n_fetches = titleFilterLimit

\* A run with item-level failures in every stage that still succeeds.
C26_ItemFailuresWitness ==
    /\ j_pc = "save"
    /\ n_success
    /\ \E k \in 1..Len(n_titleCalls) : n_titleCalls[k].status = "error"
    /\ \E pos \in DOMAIN n_outcomes : n_outcomes[pos] = "threw"
    /\ \E pos \in DOMAIN n_responses : n_responses[pos].kind = "error"
    /\ \E ids \in j_saved : ids # <<>>

\* ---------------------------------------------------------------------
\* validateEvidence: the accounting of the result

\* validateEvidence has returned its EvidenceValidation.
C39_Returned == d_reportData.evidenceValidation.set

C39_Evidences == extractAllEvidences(d_keyInsights)

\* Each evidence item is counted once, valid or invalid.
C39_CountedOnce ==
    LET result == d_reportData.evidenceValidation
    IN  /\ result.validCount + result.invalidCount = result.totalEvidences
        /\ result.totalEvidences = Len(result.details)
        /\ Len(result.details) = Len(C39_Evidences)
        /\ \A k \in 1..Len(result.details) :
              result.details[k].articleId = C39_Evidences[k].articleId
        /\ result.validCount =
               Cardinality({k \in 1..Len(result.details) : result.details[k].isValid})

\* C39 as stated: the counts add up, and validationRate is exactly
\* 100 * validCount / totalEvidences (held in tenths of a percent, so
\* validationRate * totalEvidences = 1000 * validCount), 100 without evidence.
C39_Original ==
    C39_Returned =>
        LET result == d_reportData.evidenceValidation
        IN  /\ C39_CountedOnce
            /\ IF result.totalEvidences = 0
                 THEN result.validationRate = 1000
                 ELSE result.validationRate * result.totalEvidences
                          = 1000 * result.validCount

\* C39: the result of validateEvidence counts each evidence item of the
\* digest's insights exactly once (validCount + invalidCount = totalEvidences
\* = entries of details = evidence items, whatever the ids, the checkRelevance
\* setting and the outcomes of the semantic check), and validationRate is
\* 100 * validCount / totalEvidences rounded to one decimal place (100
\* without evidence).
C39_CountsAddUpRateRoundedToOneDecimal ==
    C39_Returned =>
        LET result == d_reportData.evidenceValidation
        IN  /\ C39_CountedOnce
            /\ IF result.totalEvidences = 0
                 THEN result.validationRate = 1000
                 ELSE /\ 2 * result.validationRate * result.totalEvidences
                             <= 2000 * result.validCount + result.totalEvidences
                      /\ 2 * result.validationRate * result.totalEvidences
                             > 2000 * result.validCount - result.totalEvidences

\* Three evidence items, one invalid id, one failed semantic check, one
\* scored below the threshold: 1 of 3 valid, a rate of 33.3.
C39_Witness ==
    /\ C39_Returned
    /\ d_reportData.evidenceValidation.totalEvidences = 3
    /\ d_reportData.evidenceValidation.validCount = 1
    /\ d_reportData.evidenceValidation.validationRate = 333
    /\ \E k \in 1..3 : d_reportData.evidenceValidation.details[k].reason = "nonexistent"
    /\ \E k \in 1..3 : d_reportData.evidenceValidation.details[k].reason = "lowRelevance"
    /\ \E k \in 1..3 :
          d_reportData.evidenceValidation.details[k].reason = "relevanceCheckFailed"

\* validateEvidence on a digest without evidence: rate 100.
C39_NoEvidenceWitness ==
    /\ C39_Returned
    /\ d_reportData.evidenceValidation.totalEvidences = 0
    /\ d_reportData.evidenceValidation.validationRate = 1000

\* ---------------------------------------------------------------------
\* generateDailyReport: too few articles, failed evaluation, re-generation

\* getDailyArticles found fewer than three articles for the date.
C37_TooFew == d_pc # "getArticles" /\ Len(d_articles) < MinArticles

C38_EvaluationFailed ==
    /\ d_pc \in {"save", "done"}
    /\ d_reportData.evidenceValidation.set
    /\ d_reportData.qualityEvaluation = Undefined

\* C38: when the quality evaluation fails while a digest is generated,
\* generateDailyReport goes on to saveDailyReport with a report without
\* qualityScore; the save that goes through stores the digest and the result
\* is success = true without qualityScore.  Only a failure of the save
\* itself then makes the run fail.
C38_FailedEvaluationStillSaves ==
    [][/\ (d_pc = "evaluate" /\ d_reportData'.qualityEvaluation = Undefined) =>
              /\ d_pc' = "save"
              /\ d_result' = "pending"
              /\ d_reportData'.qualityScore = Undefined
       /\ (C38_EvaluationFailed /\ d_pc = "save") =>
              /\ d_reportData' = d_reportData
              /\ \/ /\ d_result' = "success"
                    /\ d_stored'
                    /\ d_store' = d_reportData
                 \/ /\ d_result' = "failure"
                    /\ UNCHANGED <<d_store, d_stored>>
      ]_vars

\* The digest was saved after a failed evaluation.
C38_Witness ==
    /\ C38_EvaluationFailed
    /\ d_pc = "done"
    /\ d_result = "success"
    /\ d_stored
    /\ d_store.qualityScore = Undefined
    /\ d_store.evidenceValidation.set

\* C35: after generateDailyReport succeeds for a date that already has a
\* digest, the stored qualityEvaluation, evidenceValidation and qualityScore
\* are those of the latest run, absent when that run skipped the evaluation
\* or its evaluation failed.
C35_StoredDigestIsTheLatestRuns ==
    (d_pc = "done" /\ d_result = "success") => d_store = d_reportData

\* ---------------------------------------------------------------------
\* The job entry points: the storage connection at process exit

\* C36: in both jobs, whenever the process has exited after initDatabase
\* opened the storage connection, closeDatabase has completed: the
\* connection is not left open at exit, on any path.
C36_ConnectionClosedBeforeExit ==
    j_pc = "exited" => j_db # "open"

\* ---------------------------------------------------------------------
\* Stage 3: what the tests expect of an item without analysis

\* C31: analyzeNews returns every item of the Stage 2 output, the items
\* whose detailed analysis is unavailable included: as many items out as
\* Stage 2 passed on, in the same order.
C31_ItemsWithoutAnalysisAreReturned ==
    (n_pc = "done" /\ n_success /\ n_responses # <<>>) =>
        /\ Len(n_output) = Len(n_qualityFiltered)
        /\ \A pos \in 1..Len(n_qualityFiltered) :
              n_output[pos].id = n_qualityFiltered[pos].id

\* ---------------------------------------------------------------------
\* transformAIResponseToReportData: references to articles not in the corpus

C33_CorpusIds == {t_articles[k].id : k \in 1..Len(t_articles)}

\* The ids of a list of related articles, in order.
C33_Ids(related) == [k \in 1..Len(related) |-> related[k].id]

\* A highlight keeps its reference: the article's entry, or a placeholder
\* carrying the id.
C33_HighlightsKeepTheirReference ==
    /\ Len(t_reportData.highlights) = Len(t_aiResponse.highlights)
    /\ \A k \in 1..Len(t_aiResponse.highlights) :
          LET id == t_aiResponse.highlights[k]
              entry == t_reportData.highlights[k]
          IN  /\ entry.id = id
              /\ id \notin C33_CorpusIds =>
                     /\ entry.title = <<"noArticleInfo">>
                     /\ entry.importance = 5
              /\ id \in C33_CorpusIds => entry.title = <<"title", id>>

\* C33 as stated: the transformation gives a result, and every referenced id
\* that is not in the corpus has a placeholder entry carrying it, in the
\* highlights and in the related articles of the sections and of the insights.
C33_Original ==
    /\ t_pc = "start" => ENABLED TransformAIResponseToReportData
    /\ t_pc = "done" =>
           /\ C33_HighlightsKeepTheirReference
           /\ \A k \in 1..Len(t_aiResponse.sections) :
                 C33_Ids(t_reportData.sections[k]) = t_aiResponse.sections[k]
           /\ \A k \in 1..Len(t_aiResponse.keyInsights) :
                 C33_Ids(t_reportData.keyInsights[k]) = t_aiResponse.keyInsights[k]

\* The ids of a list that the corpus has, in order.
C33_InCorpus(ids) ==
    FilterSeq(ids, [k \in 1..Len(ids) |-> ids[k] \in C33_CorpusIds])

\* C33: when the generated digest refers to an article id that is not in the
\* day's corpus the transformation does not fail; the related article of a
\* highlight becomes a placeholder entry carrying that id, while the related
\* articles of a section and of an insight are the referenced articles that
\* are in the corpus, in order, the id that is not being left out.
C33_HighlightPlaceholderListsOmit ==
    /\ t_pc = "start" => ENABLED TransformAIResponseToReportData
    /\ t_pc = "done" =>
           /\ C33_HighlightsKeepTheirReference
           /\ \A k \in 1..Len(t_aiResponse.sections) :
                 C33_Ids(t_reportData.sections[k]) =
                     C33_InCorpus(t_aiResponse.sections[k])
           /\ \A k \in 1..Len(t_aiResponse.keyInsights) :
                 C33_Ids(t_reportData.keyInsights[k]) =
                     C33_InCorpus(t_aiResponse.keyInsights[k])

\* A highlight, a section and an insight all refer to the id no article has.
C33_Witness ==
    /\ t_pc = "done"
    /\ t_aiResponse.highlights[1] = NonexistentId
    /\ t_aiResponse.sections[1] = <<1, NonexistentId>>
    /\ t_aiResponse.keyInsights[1] = <<NonexistentId>>
    /\ t_reportData.highlights[1] = placeholderArticle(NonexistentId)
    /\ Len(t_reportData.sections[1]) = 1
    /\ t_reportData.keyInsights[1] = <<>>

\* ---------------------------------------------------------------------
\* buildAnalysisPrompt: the exemplar store unavailable or without usable rows

\* The store gave nothing usable: it failed, or no returned row is complete.
C34_NothingUsable ==
    \/ x_dbExamples.failed
    \/ \A k \in 1..Len(x_dbExamples.rows) : ~x_dbExamples.rows[k]

\* C34: when the exemplar store is unavailable or returns nothing usable the
\* prompt is still built, with examples taken from the static built-in ones
\* only, and the analysis call is still made; the prompt never has more than
\* two worked examples.
C34_StaticExamplesWhenStoreGivesNone ==
    /\ x_pc = "select" => ENABLED SelectRelevantExamples
    /\ x_pc = "built" => ENABLED AnalysisCallMade
    /\ x_pc \in {"built", "called"} =>
           /\ Len(x_examples) \in 0..2
           /\ C34_NothingUsable =>
                  /\ x_examples # <<>>
                  /\ \A k \in 1..Len(x_examples) :
                        x_examples[k] \in SeqToSet(ANALYSIS_EXAMPLES)
           /\ ~C34_NothingUsable =>
                  \A k \in 1..Len(x_examples) : x_examples[k].origin = "db"

\* The store failed; the prompt of a US article about interest rates got the
\* policy and the macro example, and the call was made.
C34_Witness ==
    /\ x_pc = "called"
    /\ x_dbExamples.failed
    /\ x_store.exemplars = <<TRUE, TRUE, TRUE>>
    /\ x_article.region = "US"
    /\ x_article.title = {"policy"}
    /\ Len(x_examples) = 2
    /\ x_examples[1].category = "policy"
    /\ x_examples[2].category = "macro"

\* The store answered with rows none of which is complete.
C34_IncompleteRowsWitness ==
    /\ x_pc = "called"
    /\ ~x_dbExamples.failed
    /\ Len(x_dbExamples.rows) = ExampleLimit
    /\ C34_NothingUsable
    /\ x_examples = <<ANALYSIS_EXAMPLES[1]>>

\* ---------------------------------------------------------------------
\* fetchAllNews: a failing source

\* The sources whose fetch and parse succeeded.
C32_Parsed == {source \in 1..NumSources : f_settled[source].outcome = "parsed"}

\* The items of the feeds of those sources that have title and link.
C32_Expected ==
    {[source |-> source, item |-> k] :
        source \in C32_Parsed, k \in 1..MaxFeedItems} \cap
    {a \in [source : 1..NumSources, item : 1..MaxFeedItems] :
        /\ a.item <= Len(f_settled[a.source].items)
        /\ f_settled[a.source].items[a.item]}

\* C32: fetchAllNews always returns success = true; its articles are exactly
\* the articles of the sources whose fetch and parse succeeded, each once, in
\* the order of the sources and of their feeds; a source that failed all its
\* attempts or answered with malformed XML contributes none, and with every
\* source failing the list is empty.
C32_FailingSourceContributesNothing ==
    f_pc = "done" =>
        /\ f_result.success
        /\ SeqToSet(f_result.articles) = C32_Expected
        /\ Len(f_result.articles) = Cardinality(C32_Expected)
        /\ \A i, j \in 1..Len(f_result.articles) :
              i < j =>
                  \/ f_result.articles[i].source < f_result.articles[j].source
                  \/ /\ f_result.articles[i].source = f_result.articles[j].source
                     /\ f_result.articles[i].item < f_result.articles[j].item
        /\ \A source \in 1..NumSources :
              f_settled[source].outcome = "failed" =>
                  f_attempts[source] = FetchRetries + 1
        /\ C32_Parsed = {} => f_result.articles = <<>>

\* The first source failed every attempt, the second answered on a retry
\* with a feed of two items.
C32_Witness ==
    /\ f_pc = "done"
    /\ f_settled[1].outcome = "failed"
    /\ f_attempts[2] = 1
    /\ f_settled[2].outcome = "parsed"
    /\ f_result.success
    /\ f_result.articles = <<[source |-> 2, item |-> 1], [source |-> 2, item |-> 2]>>

\* Every source failed, one of them with malformed XML.
C32_AllFailWitness ==
    /\ f_pc = "done"
    /\ f_settled[1].outcome = "malformed"
    /\ \A source \in 2..NumSources : f_settled[source].outcome = "failed"
    /\ f_result = [success |-> TRUE, articles |-> <<>>]

====
